---- MODULE Spec2Model ----
(***************************************************************************)
(* Experiment orchestration of the WebRTC testing framework:               *)
(*   TestRunner (run_tests.js, src/unnamed/part_002 lines 1-540) and       *)
(*   NetworkController (automation_scripts/network_control.js).            *)
(* The run controller walks the scenario matrix; each scenario applies     *)
(* the tc impairment, opens the presenter and viewer pages, measures,      *)
(* closes the pages, resets the impairment and records one CSV row.        *)
(***************************************************************************)
EXTENDS Integers, Sequences, FiniteSets, TLC

(***************************************************************************)
(* Bounds of the model                                                     *)
(***************************************************************************)
MaxViewers == 2
MaxReps == 2
MaxTests == 2

(***************************************************************************)
(* Configurations (TEST_CONFIG)                                            *)
(***************************************************************************)
DefaultConfig ==
  [architectures |-> <<"P2P">>, numViewers |-> <<1>>, packetLossRates |-> <<0>>,
   presenterBandwidths |-> <<"5mbit">>, repetitions |-> 1]

FullConfig ==
  [architectures |-> <<"P2P", "SFU">>, numViewers |-> <<1, 2, 5, 10>>,
   packetLossRates |-> <<0, 1, 2, 5>>,
   presenterBandwidths |-> <<"5mbit", "2mbit", "1mbit">>, repetitions |-> 5]

ShortConfig ==
  [architectures |-> <<"P2P", "SFU">>, numViewers |-> <<1, 5>>,
   packetLossRates |-> <<0, 5>>, presenterBandwidths |-> <<"5mbit">>,
   repetitions |-> 1]

\* const totalTests = architectures.length * numViewers.length * ... * repetitions
TotalTests(c) ==
  Len(c.architectures) * Len(c.numViewers) * Len(c.packetLossRates)
    * Len(c.presenterBandwidths) * c.repetitions

ConfigSpace ==
  [architectures : {<<"P2P">>, <<"P2P", "SFU">>},
   numViewers : {<<n>> : n \in 0..MaxViewers} \cup {<<1, MaxViewers>>},
   packetLossRates : {<<0>>, <<0, 5>>},
   presenterBandwidths : {<<"5mbit">>, <<"unlimited">>, <<"unlimited", "5mbit">>},
   repetitions : 0..MaxReps]

\* the configurations the orchestration is explored under
SmallConfigs == {c \in ConfigSpace : TotalTests(c) <= MaxTests}

(***************************************************************************)
(* The five nested for-loops of runAllTests as an odometer: idx is the     *)
(* position <<architecture, numViewers, packetLossRate, bandwidth, rep>>.  *)
(***************************************************************************)
NoIdx == <<0, 0, 0, 0, 0>>

DimLens(c) ==
  <<Len(c.architectures), Len(c.numViewers), Len(c.packetLossRates),
    Len(c.presenterBandwidths), c.repetitions>>

\* the loop body is entered at all only if every loop has an iteration
HasIterations(c) == \A d \in 1..5 : DimLens(c)[d] >= 1

\* innermost loop that still has an iteration left at position i (0: none)
AdvanceDim(c, i) ==
  LET open == {d \in 1..5 : i[d] < DimLens(c)[d]}
  IN  IF open = {} THEN 0 ELSE CHOOSE d \in open : \A e \in open : e <= d

NextIdx_SkipsInnerRestart(c, i) ==
  IF i = NoIdx
    THEN IF HasIterations(c) THEN <<1, 1, 1, 1, 1>> ELSE NoIdx
    ELSE LET d == AdvanceDim(c, i)
         IN  IF d = 0 THEN NoIdx
             ELSE [e \in 1..5 |-> IF e < d THEN i[e]
                                  ELSE IF e = d THEN i[e] + 1
                                  ELSE DimLens(c)[e]]

\* position of the next iteration of the nested loops, NoIdx when exhausted
NextIdx(c, i) ==
  IF i = NoIdx
    THEN IF HasIterations(c) THEN <<1, 1, 1, 1, 1>> ELSE NoIdx
    ELSE LET d == AdvanceDim(c, i)
         IN  IF d = 0 THEN NoIdx
             ELSE [e \in 1..5 |-> IF e < d THEN i[e]
                                  ELSE IF e = d THEN i[e] + 1
                                  ELSE 1]

\* the config object handed to runSingleTest at position i
ScenarioAt(c, i) ==
  [architecture |-> c.architectures[i[1]],
   numViewers |-> c.numViewers[i[2]],
   packetLossRate |-> c.packetLossRates[i[3]],
   presenterBandwidth |-> c.presenterBandwidths[i[4]],
   repetition |-> i[5]]

(***************************************************************************)
(* State                                                                   *)
(***************************************************************************)
VARIABLES
  cfg,          \* TEST_CONFIG
  suite,        \* explicit scenario list override: [fixed, list]
  idx,          \* position of the nested loops of runAllTests
  testCount,    \* testCount of runAllTests
  pc,           \* the statement the run controller is suspended at
  who,          \* session being set up or closed: 0 presenter, i viewer i
  browser,      \* this.browser is launched
  path,         \* qdiscs installed on eth0 of the client container
  openPages,    \* pages of the browser that are open: [scn, who]
  sess,         \* connection state of the sessions of the current scenario
  viewerPages,  \* viewerPages.length of runSingleTest
  interval,     \* MetricsCollector.interval is set
  err,          \* exception in flight: its message and the statement that threw
  csvFile,      \* rows of results.csv
  csvAppend,    \* the csv writer appends (it has written before)
  resetCalls,   \* reset() invocations since the current scenario started
  crashed       \* the process was terminated

\* the MetricsCollector of the scenario under measurement
VARIABLES
  metrics,                   \* this.metrics: the sample arrays and timestamps
  summary,                   \* this.metrics: the average/min/max/total fields
  lastMetrics,               \* this.lastMetrics is set
  lastBandwidthMeasurement,  \* this.lastBandwidthMeasurement is set
  tick,                      \* where the collectMetrics in progress stands
  result                     \* the object stop() returned

\* simpleConnectionTest (simple_test.js), the one-session smoke test
VARIABLES
  window,       \* the page's window.isConnected and the text of its button
  finalState,   \* finalState read by the state check
  verdict       \* the value simpleConnectionTest returns

\* collectMetrics invocations that run at the same time
VARIABLES
  calls         \* calls[k]: where the k-th collectMetrics invocation stands

\* the results of the run in memory, and the file system under results.csv
VARIABLES
  results,      \* this.results of the TestRunner
  sink          \* "sound": every writeRecords resolves; "faulty": one may reject

smokeVars == <<window, finalState, verdict>>

\* what no statement of the test runner assigns
\* the signaling server (src/unnamed/part_000)
VARIABLES
  sockets,      \* sockets[s]: "unborn", "connected" or "disconnected"
  socketRooms,  \* socketRooms[s]: socket.rooms, the rooms of the adapter s is in
  rooms,        \* const rooms = new Map(): room id -> Room
  sent,         \* the packets the last handler sent: [to, event, data]
  handled       \* the event the last handler was called for

sigVars == <<sockets, socketRooms, rooms, sent, handled>>

\* the SFU server (metrics_collector.js, second part)
VARIABLES
  sfuSockets,   \* sfuSockets[s]: "unborn", "connected" or "disconnected"
  currentRoom,  \* currentRoom[s]: let currentRoom of the connection of s
  sfuRooms,     \* const rooms = new Map(): room id -> SFURoom
  transports,   \* the transports the router created; the id is the index
  producers,    \* the producers created, likewise
  consumers,    \* the consumers created, likewise
  sfuReply,     \* what the last handler emitted to its own socket
  sfuHandled,   \* the event the last handler was called for
  sfuDown       \* an exception left a handler uncaught: the process is gone

sfuVars == <<sfuSockets, currentRoom, sfuRooms, transports, producers,
             consumers, sfuReply, sfuHandled, sfuDown>>

serverVars == <<sigVars, sfuVars>>

\* the ids the server gives to the sockets that connect
SocketIds == {"s1", "s2", "s3"}

\* no handler has run yet
NoEvent == [event |-> "none", socket |-> "none"]

\* let currentRoom = null
NoRoom == "null"

\* no request has been handled yet
NoRequest == [event |-> "none", socket |-> "none", id |-> 0]

\* the servers are listening and nothing has connected
ServersStarted ==
  /\ sockets = [s \in SocketIds |-> "unborn"]
  /\ socketRooms = [s \in SocketIds |-> {}]
  /\ rooms = [r \in {} |-> r]
  /\ sent = {}
  /\ handled = NoEvent
  /\ sfuSockets = [s \in SocketIds |-> "unborn"]
  /\ currentRoom = [s \in SocketIds |-> NoRoom]
  /\ sfuRooms = [r \in {} |-> r]
  /\ transports = <<>>
  /\ producers = <<>>
  /\ consumers = <<>>
  /\ sfuReply = "none"
  /\ sfuHandled = NoRequest
  /\ sfuDown = FALSE

mcVars == <<metrics, summary, lastMetrics, lastBandwidthMeasurement, tick,
            result, smokeVars, calls, results, sink, serverVars>>

vars == <<cfg, suite, idx, testCount, pc, who, browser, path, openPages, sess,
          viewerPages, interval, err, csvFile, csvAppend, resetCalls, crashed,
          metrics, summary, lastMetrics, lastBandwidthMeasurement, tick,
          result, window, finalState, verdict, calls, results, sink, serverVars>>

NoSuite == [fixed |-> FALSE, list |-> <<>>]

\* no qdisc on the interface
NoQdisc == [netem |-> FALSE, loss |-> 0, tbf |-> FALSE, rate |-> "none"]

\* no exception
NoError == [msg |-> "", at |-> ""]

NoSessions == [w \in 0..MaxViewers |-> "NONE"]

\* error messages a scenario can end with
MsgCommandFailed == "Command failed (code 2)"
MsgNavigation == "net::ERR_CONNECTION_REFUSED"
MsgSelectorTimeout == "waiting for selector button failed: timeout 30000ms exceeded"
MsgClick == "Evaluation failed"
MsgConnectionTimeout == "waiting for function failed: timeout 30000ms exceeded"
MsgTypeError == "Cannot read properties of null (reading length)"
MsgClose == "Protocol error: Target closed"
MsgWrite == "EACCES: permission denied, open results.csv"

\* a row left in results.csv by an earlier run
PreviousRunRow ==
  [scn |-> 0, architecture |-> "P2P", numViewers |-> 1, packetLossRate |-> 0,
   presenterBandwidth |-> "5mbit", repetition |-> 1, success |-> TRUE,
   errorMsg |-> ""]

Scenario == ScenarioAt(cfg, idx)

Page(w) == [scn |-> testCount, who |-> w]

(***************************************************************************)
(* NetworkController                                                       *)
(***************************************************************************)
\* `tc qdisc del dev eth0 root 2>/dev/null || true`: the exit code is always
\* 0; the qdiscs are gone when the command ran (ran), untouched otherwise
TcDelRoot(p, ran) == IF ran THEN NoQdisc ELSE p

\* `tc qdisc add dev eth0 root handle 1: netem ... loss L%` succeeds only
\* when it runs and no root qdisc exists
TcAddNetemOk(p, ran) == ran /\ ~p.netem

TcAddNetem(p, loss) == [p EXCEPT !.netem = TRUE, !.loss = loss]

\* `tc qdisc add dev eth0 parent 1: handle 2: tbf rate R ...` succeeds only
\* when it runs, under an existing netem root without a child
TcAddTbfOk(p, ran) == ran /\ p.netem /\ ~p.tbf

TcAddTbf(p, rate) == [p EXCEPT !.tbf = TRUE, !.rate = rate]

\* exit status of `tc qdisc del dev eth0 root` inside the container: non-zero
\* when docker exec fails or when there is no root qdisc to delete
TcDelStatus(p, ran) == IF ran /\ p.netem THEN 0 ELSE 2

\* `cmd 2>/dev/null || true`: the status of the command is replaced by 0
OrTrue(status) == 0

\* the code the close handler of executeCommand sees: that of the shell, or
\* null (here -1) when the shell was killed by a signal
ExitCode(killed, status) == IF killed THEN -1 ELSE status

\* executeCommand: resolve when code === 0, reject otherwise
ExecuteCommandRejects(code) == code # 0

(***************************************************************************)
(* The result sink: csvWriter.writeRecords([row])                          *)
(***************************************************************************)
\* the writer truncates the file on its first write and appends afterwards
WriteRecords(file, append, row) ==
  IF append THEN Append(file, row) ELSE <<row>>

ResultRow(sc, n, ok, msg) ==
  [scn |-> n, architecture |-> sc.architecture, numViewers |-> sc.numViewers,
   packetLossRate |-> sc.packetLossRate,
   presenterBandwidth |-> sc.presenterBandwidth, repetition |-> sc.repetition,
   success |-> ok, errorMsg |-> msg]

(***************************************************************************)
(* MetricsCollector: the object its constructor builds                     *)
(***************************************************************************)
\* the quotient n / d of an average, kept exact
Ratio(n, d) == [num |-> n, den |-> d]

Zero == Ratio(0, 1)

\* this.metrics: the sample arrays, connectionStats and timestamps
NewMetrics ==
  [cpu |-> <<>>, memory |-> <<>>, bandwidth |-> <<>>, latency |-> <<>>,
   jitter |-> <<>>, packetsLost |-> <<>>, connectionStats |-> FALSE,
   timestamps |-> <<>>]

\* this.metrics: the summary fields beside the sample arrays
NewSummary ==
  [cpu |-> [average |-> Zero, max |-> 0, min |-> 100],
   memory |-> [average |-> Zero, max |-> 0],
   bandwidth |-> [total |-> 0, peak |-> 0],
   latency |-> [average |-> Zero, min |-> 0, max |-> 0],
   jitter |-> [average |-> Zero, min |-> 0, max |-> 0],
   packetsLost |-> [total |-> 0]]

\* no reading is held by collectMetrics
NoReading == [v |-> 0, src |-> "nothing"]

\* no collectMetrics is in progress
IdleTick == [at |-> "idle", i |-> 0, got |-> NoReading]

\* stop() has not returned
NoResult == [returned |-> FALSE]

\* no document is loaded
NoWindow == [isConnected |-> "undefined", buttonText |-> "none"]

\* the state check has not read the page
NoFinalState == [isConnected |-> "unread", buttonText |-> "unread"]

\* a MetricsCollector after its constructor: no invocation of
\* collectMetrics under way (and no smoke test running)
NewCollector ==
  /\ metrics = NewMetrics
  /\ summary = NewSummary
  /\ lastMetrics = FALSE
  /\ lastBandwidthMeasurement = FALSE
  /\ tick = IdleTick
  /\ result = NoResult
  /\ window = NoWindow
  /\ finalState = NoFinalState
  /\ verdict = "none"
  /\ calls = <<>>

(***************************************************************************)
(* Initial state: a constructed TestRunner, main() not yet started         *)
(***************************************************************************)
\* fields of a TestRunner after its constructor
Constructed ==
  /\ idx = NoIdx
  /\ testCount = 0
  /\ who = 0
  /\ path = NoQdisc
  /\ openPages = {}
  /\ sess = NoSessions
  /\ viewerPages = 0
  /\ interval = FALSE
  /\ err = NoError
  /\ csvAppend = FALSE
  /\ resetCalls = 0
  /\ crashed = FALSE
  /\ results = <<>>
  /\ NewCollector

Init ==
  /\ cfg \in SmallConfigs
  /\ suite = NoSuite
  /\ pc = "start"
  /\ browser = FALSE
  /\ csvFile \in {<<>>, <<PreviousRunRow>>}
  /\ sink = "sound"
  /\ ServersStarted
  /\ Constructed

Running == ~crashed

Throw_Uncaught(msg) == err' = [msg |-> msg, at |-> pc] /\ pc' = "cleanupBrowser"

\* a throw inside runSingleTest lands in the catch block of runAllTests
Throw(msg) == err' = [msg |-> msg, at |-> pc] /\ pc' = "catch"

(***************************************************************************)
(* main / initialize / runAllTests                                         *)
(***************************************************************************)
\* initialize(): puppeteer.launch resolves, or rejects into main's catch
Initialize ==
  /\ Running /\ pc = "start"
  /\ \/ browser' = TRUE /\ pc' = "loopHead"
     \/ browser' = FALSE /\ pc' = "cleanupBrowser"
  /\ UNCHANGED <<cfg, suite, idx, testCount, who, path, openPages, sess,
                 viewerPages, interval, err, csvFile, csvAppend, resetCalls,
                 crashed>>
  /\ UNCHANGED mcVars

\* head of the nested loops: testCount++ and entry of the try block
LoopNext ==
  /\ Running /\ pc = "loopHead" /\ ~suite.fixed
  /\ NextIdx(cfg, idx) # NoIdx
  /\ idx' = NextIdx(cfg, idx)
  /\ testCount' = testCount + 1
  /\ pc' = "applyClear"
  /\ who' = 0 /\ sess' = NoSessions /\ viewerPages' = 0 /\ err' = NoError
  /\ resetCalls' = 0
  /\ UNCHANGED <<cfg, suite, browser, path, openPages, interval, csvFile,
                 csvAppend, crashed>>
  /\ UNCHANGED mcVars

\* the loops are exhausted: runAllTests returns to main
LoopExit ==
  /\ Running /\ pc = "loopHead" /\ ~suite.fixed
  /\ NextIdx(cfg, idx) = NoIdx
  /\ pc' = "cleanupBrowser"
  /\ UNCHANGED <<cfg, suite, idx, testCount, who, browser, path, openPages,
                 sess, viewerPages, interval, err, csvFile, csvAppend,
                 resetCalls, crashed>>
  /\ UNCHANGED mcVars

(***************************************************************************)
(* runSingleTest: applyConditions                                          *)
(***************************************************************************)
ApplyClear ==
  /\ Running /\ pc = "applyClear"
  /\ \E ran \in BOOLEAN : path' = TcDelRoot(path, ran)
  /\ pc' = "applyNetem"
  /\ UNCHANGED <<cfg, suite, idx, testCount, who, browser, openPages, sess,
                 viewerPages, interval, err, csvFile, csvAppend, resetCalls,
                 crashed>>
  /\ UNCHANGED mcVars

\* where applyConditions continues after the netem command succeeded
AfterNetem(bandwidth) ==
  IF bandwidth # "unlimited" THEN "applyTbf" ELSE "newPresenter"

ApplyNetem ==
  /\ Running /\ pc = "applyNetem"
  /\ \E ran \in BOOLEAN :
       IF TcAddNetemOk(path, ran)
         THEN /\ path' = TcAddNetem(path, Scenario.packetLossRate)
              /\ pc' = AfterNetem(Scenario.presenterBandwidth)
              /\ err' = err
         ELSE path' = path /\ Throw(MsgCommandFailed)
  /\ UNCHANGED <<cfg, suite, idx, testCount, who, browser, openPages, sess,
                 viewerPages, interval, csvFile, csvAppend, resetCalls,
                 crashed>>
  /\ UNCHANGED mcVars

ApplyTbf ==
  /\ Running /\ pc = "applyTbf"
  /\ \E ran \in BOOLEAN :
       IF TcAddTbfOk(path, ran)
         THEN /\ path' = TcAddTbf(path, Scenario.presenterBandwidth)
              /\ pc' = "newPresenter"
              /\ err' = err
         ELSE path' = path /\ Throw(MsgCommandFailed)
  /\ UNCHANGED <<cfg, suite, idx, testCount, who, browser, openPages, sess,
                 viewerPages, interval, csvFile, csvAppend, resetCalls,
                 crashed>>
  /\ UNCHANGED mcVars

(***************************************************************************)
(* runSingleTest: sessions (setupPresenterPage, setupViewerPage)           *)
(***************************************************************************)
\* const presenterPage = await this.browser.newPage()
NewPresenterPage ==
  /\ Running /\ pc = "newPresenter"
  /\ openPages' = openPages \cup {Page(0)}
  /\ sess' = [sess EXCEPT ![0] = "CREATED"]
  /\ who' = 0
  /\ pc' = "goto"
  /\ UNCHANGED <<cfg, suite, idx, testCount, browser, path, viewerPages,
                 interval, err, csvFile, csvAppend, resetCalls, crashed>>
  /\ UNCHANGED mcVars

MoreViewers_StopsOneEarly(pushed, n) == pushed + 1 < n

\* loop test i < config.numViewers of the viewer loop
MoreViewers(pushed, n) == pushed < n

\* const viewerPage = await this.browser.newPage(), viewer i = viewerPages.length
NewViewerPage ==
  /\ Running /\ pc = "viewerLoop"
  /\ MoreViewers(viewerPages, Scenario.numViewers)
  /\ who' = viewerPages + 1
  /\ openPages' = openPages \cup {Page(viewerPages + 1)}
  /\ sess' = [sess EXCEPT ![viewerPages + 1] = "CREATED"]
  /\ pc' = "goto"
  /\ UNCHANGED <<cfg, suite, idx, testCount, browser, path, viewerPages,
                 interval, err, csvFile, csvAppend, resetCalls, crashed>>
  /\ UNCHANGED mcVars

\* the viewer loop is over: sleep(10000)
ViewersProvisioned ==
  /\ Running /\ pc = "viewerLoop"
  /\ ~MoreViewers(viewerPages, Scenario.numViewers)
  /\ pc' = "metricsStart"
  /\ UNCHANGED <<cfg, suite, idx, testCount, who, browser, path, openPages,
                 sess, viewerPages, interval, err, csvFile, csvAppend,
                 resetCalls, crashed>>
  /\ UNCHANGED mcVars

\* the session being set up fails: its setup function throws msg
SessionFails(msg) ==
  /\ sess' = [sess EXCEPT ![who] = "FAILED"]
  /\ Throw(msg)
  /\ viewerPages' = viewerPages

\* await page.goto(url, {waitUntil: 'networkidle0'}), outside the try block
Goto ==
  /\ Running /\ pc = "goto"
  /\ \/ /\ sess' = [sess EXCEPT ![who] = "NAVIGATED"]
        /\ pc' = "waitForSelector"
        /\ UNCHANGED <<err, viewerPages>>
     \/ SessionFails(MsgNavigation)
  /\ UNCHANGED <<cfg, suite, idx, testCount, who, browser, path, openPages,
                 interval, csvFile, csvAppend, resetCalls, crashed>>
  /\ UNCHANGED mcVars

HandlerRethrows_ReadsNullLength(w, msg, hasButton) ==
  IF w # 0 THEN MsgTypeError ELSE msg

\* the catch block of the setup function logs the page and rethrows the
\* error; the viewer's block reads .length of page.$('button'), which is
\* null when the page has no button
HandlerRethrows(w, msg, hasButton) ==
  IF w # 0 /\ ~hasButton THEN MsgTypeError ELSE msg

\* await page.waitForSelector('button', {timeout: 30000})
WaitForSelector ==
  /\ Running /\ pc = "waitForSelector"
  /\ \/ /\ sess' = [sess EXCEPT ![who] = "AWAITING_USER_GESTURE"]
        /\ pc' = "click"
        /\ UNCHANGED <<err, viewerPages>>
     \/ SessionFails(HandlerRethrows(who, MsgSelectorTimeout, FALSE))
  /\ UNCHANGED <<cfg, suite, idx, testCount, who, browser, path, openPages,
                 interval, csvFile, csvAppend, resetCalls, crashed>>
  /\ UNCHANGED mcVars

\* page.click('button'), else the evaluate click; throws when both fail
Click ==
  /\ Running /\ pc = "click"
  /\ \/ /\ sess' = [sess EXCEPT ![who] = "CONNECTING"]
        /\ pc' = "waitForFunction"
        /\ UNCHANGED <<err, viewerPages>>
     \/ SessionFails(HandlerRethrows(who, MsgClick, TRUE))
  /\ UNCHANGED <<cfg, suite, idx, testCount, who, browser, path, openPages,
                 interval, csvFile, csvAppend, resetCalls, crashed>>
  /\ UNCHANGED mcVars

\* viewerPages.push(viewerPage) after setupViewerPage returned
Pushed(w, pushed) == IF w = 0 THEN pushed ELSE pushed + 1

\* await page.waitForFunction(() => window.isConnected === true,
\* {timeout: 30000}); the timeout error is rethrown by both handlers
WaitForFunction ==
  /\ Running /\ pc = "waitForFunction"
  /\ \/ /\ sess' = [sess EXCEPT ![who] = "CONNECTED"]
        /\ viewerPages' = Pushed(who, viewerPages)
        /\ pc' = "viewerLoop"
        /\ err' = err
     \/ SessionFails(HandlerRethrows(who, MsgConnectionTimeout, TRUE))
  /\ UNCHANGED <<cfg, suite, idx, testCount, who, browser, path, openPages,
                 interval, csvFile, csvAppend, resetCalls, crashed>>
  /\ UNCHANGED mcVars

(***************************************************************************)
(* runSingleTest: telemetry window                                         *)
(***************************************************************************)
\* new MetricsCollector(presenterPage, viewerPages); await start()
MetricsStart ==
  /\ Running /\ pc = "metricsStart"
  /\ interval' = TRUE
  /\ pc' = "duration"
  /\ UNCHANGED <<cfg, suite, idx, testCount, who, browser, path, openPages,
                 sess, viewerPages, err, csvFile, csvAppend, resetCalls,
                 crashed>>
  /\ UNCHANGED mcVars

\* await this.sleep(TEST_CONFIG.testDurationMs)
Duration ==
  /\ Running /\ pc = "duration"
  /\ pc' = "metricsStop"
  /\ UNCHANGED <<cfg, suite, idx, testCount, who, browser, path, openPages,
                 sess, viewerPages, interval, err, csvFile, csvAppend,
                 resetCalls, crashed>>
  /\ UNCHANGED mcVars

\* const metrics = await metricsCollector.stop()
MetricsStop ==
  /\ Running /\ pc = "metricsStop"
  /\ interval' = FALSE
  /\ pc' = "closePresenter"
  /\ UNCHANGED <<cfg, suite, idx, testCount, who, browser, path, openPages,
                 sess, viewerPages, err, csvFile, csvAppend, resetCalls,
                 crashed>>
  /\ UNCHANGED mcVars

(***************************************************************************)
(* runSingleTest: teardown and reset                                       *)
(***************************************************************************)
\* await presenterPage.close()
ClosePresenter ==
  /\ Running /\ pc = "closePresenter"
  /\ \/ /\ openPages' = openPages \ {Page(0)}
        /\ who' = 1
        /\ pc' = "closeViewers"
        /\ err' = err
     \/ /\ \E gone \in BOOLEAN :
             openPages' = IF gone THEN openPages \ {Page(0)} ELSE openPages
        /\ who' = who
        /\ Throw(MsgClose)
  /\ UNCHANGED <<cfg, suite, idx, testCount, browser, path, sess, viewerPages,
                 interval, csvFile, csvAppend, resetCalls, crashed>>
  /\ UNCHANGED mcVars

\* for (const viewerPage of viewerPages) await viewerPage.close()
CloseViewer ==
  /\ Running /\ pc = "closeViewers"
  /\ who <= viewerPages
  /\ \/ /\ openPages' = openPages \ {Page(who)}
        /\ who' = who + 1
        /\ UNCHANGED <<pc, err>>
     \/ /\ \E gone \in BOOLEAN :
             openPages' = IF gone THEN openPages \ {Page(who)} ELSE openPages
        /\ who' = who
        /\ Throw(MsgClose)
  /\ UNCHANGED <<cfg, suite, idx, testCount, browser, path, sess, viewerPages,
                 interval, csvFile, csvAppend, resetCalls, crashed>>
  /\ UNCHANGED mcVars

PagesClosed ==
  /\ Running /\ pc = "closeViewers"
  /\ who > viewerPages
  /\ pc' = "reset"
  /\ UNCHANGED <<cfg, suite, idx, testCount, who, browser, path, openPages,
                 sess, viewerPages, interval, err, csvFile, csvAppend,
                 resetCalls, crashed>>
  /\ UNCHANGED mcVars

\* NetworkController.reset(): the command's failure is caught and logged
ResetPath(p, ran) == TcDelRoot(p, ran)

\* the executeCommand of reset() rejects
ResetRejects(p, ran, killed) ==
  ExecuteCommandRejects(ExitCode(killed, OrTrue(TcDelStatus(p, ran))))

\* reset() logs 'Failed to reset network conditions'
ResetWarns(p, ran, killed) == ResetRejects(p, ran, killed)

ResetThrows_Rethrows(p, ran, killed) == ResetRejects(p, ran, killed)

\* reset() rejects to its caller: its catch block warns and does not rethrow
ResetThrows(p, ran, killed) == ResetRejects(p, ran, killed) /\ FALSE

\* await this.networkController.reset() of runSingleTest
ResetConditions ==
  /\ Running /\ pc = "reset"
  /\ \E ran, killed \in BOOLEAN :
       /\ path' = ResetPath(path, ran)
       /\ IF ResetThrows(path, ran, killed)
            THEN Throw(MsgCommandFailed)
            ELSE pc' = "record" /\ err' = err
  /\ resetCalls' = resetCalls + 1
  /\ UNCHANGED <<cfg, suite, idx, testCount, who, browser, openPages, sess,
                 viewerPages, interval, csvFile, csvAppend, crashed>>
  /\ UNCHANGED mcVars

(***************************************************************************)
(* runAllTests: recording the result                                       *)
(***************************************************************************)
\* the object runSingleTest returns
SuccessRow(sc, n) == ResultRow(sc, n, TRUE, "")

\* errorResult of the catch block
ErrorRow(sc, n, msg) == ResultRow(sc, n, FALSE, msg)

\* the outcomes of one writeRecords: resolved (TRUE) or rejected (FALSE)
WriteOutcomes == IF sink = "sound" THEN {TRUE} ELSE {TRUE, FALSE}

\* a rejection inside the catch block leaves runAllTests and reaches the
\* catch of main, which logs it; finally runs cleanup
RunAllTestsThrows(msg) ==
  err' = [msg |-> msg, at |-> pc] /\ pc' = "cleanupBrowser"

RecordResult_PushOnly ==
  /\ Running /\ pc = "record"
  /\ results' = Append(results, SuccessRow(Scenario, testCount))
  /\ pc' = "loopHead"
  /\ UNCHANGED <<cfg, suite, idx, testCount, who, browser, path, openPages,
                 sess, viewerPages, interval, err, csvFile, csvAppend,
                 resetCalls, crashed>>
  /\ UNCHANGED <<metrics, summary, lastMetrics, lastBandwidthMeasurement,
                 tick, result, smokeVars, calls, sink, serverVars>>

\* this.results.push(result); await this.csvWriter.writeRecords([result]);
\* sleep(5000).  A rejected write is thrown inside the try block, so the
\* catch block of the same scenario receives it.
RecordResult ==
  /\ Running /\ pc = "record"
  /\ results' = Append(results, SuccessRow(Scenario, testCount))
  /\ \E written \in WriteOutcomes :
       IF written
         THEN /\ csvFile' =
                   WriteRecords(csvFile, csvAppend, SuccessRow(Scenario, testCount))
              /\ csvAppend' = TRUE
              /\ pc' = "loopHead"
              /\ err' = err
         ELSE /\ Throw(MsgWrite)
              /\ UNCHANGED <<csvFile, csvAppend>>
  /\ UNCHANGED <<cfg, suite, idx, testCount, who, browser, path, openPages,
                 sess, viewerPages, interval, resetCalls, crashed>>
  /\ UNCHANGED <<metrics, summary, lastMetrics, lastBandwidthMeasurement,
                 tick, result, smokeVars, calls, sink, serverVars>>

CatchRecord_OnlyLogs ==
  /\ Running /\ pc = "catch"
  /\ pc' = "loopHead"
  /\ UNCHANGED <<cfg, suite, idx, testCount, who, browser, path, openPages,
                 sess, viewerPages, interval, err, csvFile, csvAppend,
                 resetCalls, crashed>>
  /\ UNCHANGED mcVars

\* catch (error): errorResult is built, pushed and written; sleep(5000)
CatchRecord ==
  /\ Running /\ pc = "catch"
  /\ results' = Append(results, ErrorRow(Scenario, testCount, err.msg))
  /\ \E written \in WriteOutcomes :
       IF written
         THEN /\ csvFile' =
                   WriteRecords(csvFile, csvAppend,
                                ErrorRow(Scenario, testCount, err.msg))
              /\ csvAppend' = TRUE
              /\ pc' = "loopHead"
              /\ err' = err
         ELSE /\ RunAllTestsThrows(MsgWrite)
              /\ UNCHANGED <<csvFile, csvAppend>>
  /\ UNCHANGED <<cfg, suite, idx, testCount, who, browser, path, openPages,
                 sess, viewerPages, interval, resetCalls, crashed>>
  /\ UNCHANGED <<metrics, summary, lastMetrics, lastBandwidthMeasurement,
                 tick, result, smokeVars, calls, sink, serverVars>>

(***************************************************************************)
(* main: finally { await testRunner.cleanup() }                            *)
(***************************************************************************)
CleanupBrowser_SkipsReset ==
  /\ Running /\ pc = "cleanupBrowser"
  /\ openPages' = IF browser THEN {} ELSE openPages
  /\ pc' = "done"
  /\ UNCHANGED <<cfg, suite, idx, testCount, who, browser, path, sess,
                 viewerPages, interval, err, csvFile, csvAppend, resetCalls,
                 crashed>>
  /\ UNCHANGED mcVars

\* if (this.browser) await this.browser.close(): every page is closed
CleanupBrowser ==
  /\ Running /\ pc = "cleanupBrowser"
  /\ openPages' = IF browser THEN {} ELSE openPages
  /\ pc' = "cleanupReset"
  /\ UNCHANGED <<cfg, suite, idx, testCount, who, browser, path, sess,
                 viewerPages, interval, err, csvFile, csvAppend, resetCalls,
                 crashed>>
  /\ UNCHANGED mcVars

\* await this.networkController.reset() of cleanup
CleanupReset ==
  /\ Running /\ pc = "cleanupReset"
  /\ \E ran, killed \in BOOLEAN :
       /\ path' = ResetPath(path, ran)
       /\ err' = IF ResetThrows(path, ran, killed)
                   THEN [msg |-> MsgCommandFailed, at |-> pc] ELSE err
  /\ resetCalls' = resetCalls + 1
  /\ pc' = "done"
  /\ UNCHANGED <<cfg, suite, idx, testCount, who, browser, openPages, sess,
                 viewerPages, interval, csvFile, csvAppend, crashed>>
  /\ UNCHANGED mcVars

\* the process is terminated from outside while the run is under way
Crash ==
  /\ Running /\ pc # "done"
  /\ crashed' = TRUE
  /\ UNCHANGED <<cfg, suite, idx, testCount, pc, who, browser, path,
                 openPages, sess, viewerPages, interval, err, csvFile,
                 csvAppend, resetCalls>>
  /\ UNCHANGED mcVars

Next ==
  \/ Initialize \/ LoopNext \/ LoopExit
  \/ ApplyClear \/ ApplyNetem \/ ApplyTbf
  \/ NewPresenterPage \/ NewViewerPage \/ ViewersProvisioned
  \/ Goto \/ WaitForSelector \/ Click \/ WaitForFunction
  \/ MetricsStart \/ Duration \/ MetricsStop
  \/ ClosePresenter \/ CloseViewer \/ PagesClosed \/ ResetConditions
  \/ RecordResult \/ CatchRecord
  \/ CleanupBrowser \/ CleanupReset
  \/ Crash

Spec == Init /\ [][Next]_vars

(***************************************************************************)
(* The scenario matrix alone: the loops of runAllTests over the shipped    *)
(* configurations, with the scenario body reduced to its return to the     *)
(* loop head (the try/catch lets no scenario leave the loops).             *)
(***************************************************************************)
MaxSuite == 6

\* explicit scenario lists of every length up to MaxSuite
FixedSuites ==
  {[fixed |-> TRUE,
    list |-> [k \in 1..n |-> [ScenarioAt(ShortConfig, <<1, 1, 1, 1, 1>>)
                                EXCEPT !.repetition = k]]] : n \in 0..MaxSuite}

MatrixConfigs == {DefaultConfig, FullConfig, ShortConfig} \cup SmallConfigs

MatrixInit ==
  /\ \/ cfg \in MatrixConfigs /\ suite = NoSuite
     \/ cfg = DefaultConfig /\ suite \in FixedSuites
  /\ pc = "loopHead"
  /\ browser = TRUE
  /\ csvFile = <<>>
  /\ sink = "sound"
  /\ ServersStarted
  /\ Constructed

\* fixed mode: the next scenario of the explicit list
FixedNext ==
  /\ Running /\ pc = "loopHead" /\ suite.fixed
  /\ testCount < Len(suite.list)
  /\ testCount' = testCount + 1
  /\ pc' = "applyClear"
  /\ UNCHANGED <<cfg, suite, idx, who, browser, path, openPages, sess,
                 viewerPages, interval, err, csvFile, csvAppend, resetCalls,
                 crashed>>
  /\ UNCHANGED mcVars

\* fixed mode: the list is exhausted
FixedExit ==
  /\ Running /\ pc = "loopHead" /\ suite.fixed
  /\ testCount >= Len(suite.list)
  /\ pc' = "cleanupBrowser"
  /\ UNCHANGED <<cfg, suite, idx, testCount, who, browser, path, openPages,
                 sess, viewerPages, interval, err, csvFile, csvAppend,
                 resetCalls, crashed>>
  /\ UNCHANGED mcVars

\* the try/catch around runSingleTest: returning or throwing, the scenario
\* ends at the sleep(5000) that closes the loop body
ScenarioBody ==
  /\ Running /\ pc = "applyClear"
  /\ pc' = "loopHead"
  /\ UNCHANGED <<cfg, suite, idx, testCount, who, browser, path, openPages,
                 sess, viewerPages, interval, err, csvFile, csvAppend,
                 resetCalls, crashed>>
  /\ UNCHANGED mcVars

MatrixNext == LoopNext \/ LoopExit \/ FixedNext \/ FixedExit \/ ScenarioBody

SpecMatrix == MatrixInit /\ [][MatrixNext]_vars

(***************************************************************************)
(* MetricsCollector: one scenario's telemetry window.  Spec follows the    *)
(* collector only through its timer; SpecTelemetry follows its samples,    *)
(* from the runner's state at `new MetricsCollector` to the return of      *)
(* stop().  One collectMetrics is followed at a time.                      *)
(***************************************************************************)
\* sampling ticks followed in one telemetry window
MaxTicks == 2

\* outcomes of a query: it rejects, it finds no data, or it yields a number
Throws == [st |-> "throws", v |-> 0]
Null == [st |-> "null", v |-> 0]
Num(x) == [st |-> "num", v |-> x]

\* the presenter page exposes window.mediasoupSendTransport
Relay == Scenario.architecture = "SFU"

\* presenterPage.metrics(): cpuPercentage from the TaskDuration delta
SystemOutcomes == {Throws, Null, Num(150)}

\* cat /proc/net/dev: bytes per second since the last measurement
BandwidthOutcomes == {Throws, Null, Num(0), Num(5)}

\* presenterPage.evaluate of getLatency: the remote-inbound-rtp
\* roundTripTime of the send transport, null without transport or report
PresenterRttOutcomes(relay) ==
  {Throws, Null} \cup (IF relay THEN {Num(0), Num(2)} ELSE {})

\* viewerPage.evaluate of getLatency: an RTT of the viewer's peer
\* connection, consumer or transport stats
ViewerRttOutcomes == {Throws, Null, Num(-1), Num(0), Num(1)}

\* presenterPage.evaluate of getJitter: mediasoupSendTransport !== undefined
IsSfuOutcomes(relay) == {Throws, Num(IF relay THEN 1 ELSE 0)}

\* viewerPage.evaluate of getJitter: inbound-rtp jitter of the viewer
ViewerJitterOutcomes == {Throws, Null, Num(0), Num(3)}

\* viewerPage.evaluate of getPacketsLost: inbound-rtp packetsLost
ViewerLossOutcomes == {Throws, Null, Num(-1), Num(0), Num(4)}

\* what a page query returns to the getter: `return 0` when no report has
\* the value
PageValue(out) == IF out.st = "num" THEN out.v ELSE 0

\* getSystemMetrics(): null on failure or without TaskDuration, cpu 0 for
\* the first measurement, clamped to 0..100 afterwards
GetSystemMetrics(out, hasLast) ==
  IF out.st # "num"
    THEN [ok |-> FALSE, cpu |-> 0, memory |-> 0]
    ELSE [ok |-> TRUE,
          cpu |-> IF ~hasLast THEN 0
                  ELSE IF out.v > 100 THEN 100
                  ELSE IF out.v < 0 THEN 0 ELSE out.v,
          memory |-> 8]

\* getBandwidthUsage(): 0 on failure, without output and for the first
\* measurement
GetBandwidthUsage(out, hasLast) ==
  IF out.st = "num" /\ hasLast THEN out.v ELSE 0

\* getLatency(viewerPage): the presenter's RTT when it is positive, else
\* what the viewer page yields, 0 when that query rejects
GetLatency(pres, view) ==
  IF pres.st = "num" /\ pres.v > 0
    THEN [v |-> pres.v, src |-> "presenter"]
    ELSE IF view.st = "throws"
      THEN [v |-> 0, src |-> "default"]
      ELSE [v |-> PageValue(view),
            src |-> IF view.st = "num" THEN "viewer" ELSE "default"]

\* getJitter(viewerPage): 0 when the presenter reports a send transport,
\* else what the viewer page yields, 0 when that query rejects
GetJitter(isSfu, view) ==
  IF isSfu.st = "num" /\ isSfu.v = 1
    THEN [v |-> 0, src |-> "default"]
    ELSE IF view.st = "throws"
      THEN [v |-> 0, src |-> "default"]
      ELSE [v |-> PageValue(view),
            src |-> IF view.st = "num" THEN "viewer" ELSE "default"]

\* getPacketsLost(viewerPage): what the viewer page yields, 0 when the
\* query rejects
GetPacketsLost(view) ==
  IF view.st = "throws"
    THEN [v |-> 0, src |-> "default"]
    ELSE [v |-> PageValue(view),
          src |-> IF view.st = "num" THEN "viewer" ELSE "default"]

\* the conditions under which collectMetrics pushes a reading
KeepBandwidth(v) == v > 0

KeepLatency_NonZero(v) == v # 0

KeepLatency(v) == v > 0

KeepJitter(v) == v > 0

KeepPacketsLost_Positive(v) == v > 0

KeepPacketsLost(v) == v >= 0

\* the per-viewer loops of collectMetrics
LoopStages == {"latency", "jitter", "packetsLost"}

\* order of the reads of collectMetrics
StageAfter(at) ==
  CASE at = "system" -> "bandwidth"
    [] at = "bandwidth" -> "latency"
    [] at = "latency" -> "jitter"
    [] at = "jitter" -> "packetsLost"
    [] at = "packetsLost" -> "stats"
    [] at = "stats" -> "idle"

RECURSIVE Enter(_, _)
\* collectMetrics arrives at a read; a loop over no viewer is passed over
Enter(at, n) ==
  IF at \in LoopStages /\ n = 0
    THEN Enter(StageAfter(at), n)
    ELSE [at |-> at, i |-> 0, got |-> NoReading]

\* collectMetrics goes on after the read it stands at
Advance(t, n) ==
  IF t.at \in LoopStages /\ t.i + 1 < n
    THEN [at |-> t.at, i |-> t.i + 1, got |-> NoReading]
    ELSE Enter(StageAfter(t.at), n)

\* the runner's variables the collector does not touch
runnerVars == <<cfg, suite, idx, testCount, who, browser, path, openPages,
                sess, viewerPages, err, csvFile, csvAppend, resetCalls,
                crashed, smokeVars, calls, results, sink, serverVars>>

\* one-scenario configurations: either architecture, without a viewer and
\* with one
TelemetryConfigs ==
  {[architectures |-> <<a>>, numViewers |-> <<n>>, packetLossRates |-> <<0>>,
    presenterBandwidths |-> <<"5mbit">>, repetitions |-> 1] :
     a \in {"P2P", "SFU"}, n \in {0, 1}}

\* runSingleTest stands before `new MetricsCollector`: the path carries the
\* scenario's impairment, presenter and viewers are connected
TelemetryInit ==
  /\ cfg \in TelemetryConfigs
  /\ suite = NoSuite
  /\ idx = NextIdx(cfg, NoIdx)
  /\ testCount = 1
  /\ pc = "metricsStart"
  /\ who = cfg.numViewers[1]
  /\ browser = TRUE
  /\ path = TcAddTbf(TcAddNetem(NoQdisc, 0), "5mbit")
  /\ openPages = {[scn |-> 1, who |-> w] : w \in 0..cfg.numViewers[1]}
  /\ sess = [w \in 0..MaxViewers |->
               IF w <= cfg.numViewers[1] THEN "CONNECTED" ELSE "NONE"]
  /\ viewerPages = cfg.numViewers[1]
  /\ interval = FALSE
  /\ err = NoError
  /\ csvFile = <<>>
  /\ csvAppend = FALSE
  /\ resetCalls = 0
  /\ crashed = FALSE
  /\ results = <<>>
  /\ sink = "sound"
  /\ ServersStarted
  /\ NewCollector

\* new MetricsCollector(presenterPage, viewerPages); await start()
CollectorStart ==
  /\ pc = "metricsStart"
  /\ interval' = TRUE
  /\ pc' = "duration"
  /\ metrics' = NewMetrics /\ summary' = NewSummary
  /\ lastMetrics' = FALSE /\ lastBandwidthMeasurement' = FALSE
  /\ tick' = IdleTick /\ result' = NoResult
  /\ UNCHANGED runnerVars

\* the interval timer fires: collectMetrics pushes the timestamp.  Here
\* every invocation returns within the interval; invocations that outlast
\* it are the subject of SpecOverlap
TickFire ==
  /\ interval /\ tick.at = "idle"
  /\ Len(metrics.timestamps) < MaxTicks
  /\ metrics' = [metrics EXCEPT !.timestamps = Append(@, Len(@) + 1)]
  /\ tick' = Enter("system", viewerPages)
  /\ UNCHANGED <<pc, interval, summary, lastMetrics,
                 lastBandwidthMeasurement, result>>
  /\ UNCHANGED runnerVars

\* const systemMetrics = await this.getSystemMetrics(); push cpu and memory
ReadSystem ==
  /\ tick.at = "system"
  /\ \E out \in SystemOutcomes :
       LET r == GetSystemMetrics(out, lastMetrics) IN
         /\ metrics' = IF r.ok
                         THEN [metrics EXCEPT !.cpu = Append(@, r.cpu),
                                              !.memory = Append(@, r.memory)]
                         ELSE metrics
         /\ lastMetrics' = (lastMetrics \/ out.st = "num")
  /\ tick' = Advance(tick, viewerPages)
  /\ UNCHANGED <<pc, interval, summary, lastBandwidthMeasurement, result>>
  /\ UNCHANGED runnerVars

\* const bandwidthUsage = await this.getBandwidthUsage(); push if > 0
ReadBandwidth ==
  /\ tick.at = "bandwidth"
  /\ \E out \in BandwidthOutcomes :
       LET b == GetBandwidthUsage(out, lastBandwidthMeasurement) IN
         /\ metrics' = IF KeepBandwidth(b)
                         THEN [metrics EXCEPT !.bandwidth = Append(@, b)]
                         ELSE metrics
         /\ lastBandwidthMeasurement' =
              (lastBandwidthMeasurement \/ out.st = "num")
  /\ tick' = Advance(tick, viewerPages)
  /\ UNCHANGED <<pc, interval, summary, lastMetrics, result>>
  /\ UNCHANGED runnerVars

\* a getter of a per-viewer loop returns its reading r to collectMetrics
Got(r) ==
  /\ tick.got = NoReading
  /\ tick' = [tick EXCEPT !.got = r]
  /\ UNCHANGED <<pc, interval, metrics, summary, lastMetrics,
                 lastBandwidthMeasurement, result>>
  /\ UNCHANGED runnerVars

\* collectMetrics pushes the reading it holds when keep, and goes on
Push(keep) ==
  /\ tick.got # NoReading
  /\ metrics' = IF keep THEN [metrics EXCEPT ![tick.at] = Append(@, tick.got)]
                ELSE metrics
  /\ tick' = Advance(tick, viewerPages)
  /\ UNCHANGED <<pc, interval, summary, lastMetrics,
                 lastBandwidthMeasurement, result>>
  /\ UNCHANGED runnerVars

\* const latency = await this.getLatency(this.viewerPages[i])
AwaitLatency ==
  /\ tick.at = "latency"
  /\ \E pres \in PresenterRttOutcomes(Relay), view \in ViewerRttOutcomes :
       Got(GetLatency(pres, view))

\* if (latency > 0) this.metrics.latency.samples.push(latency)
PushLatency ==
  /\ tick.at = "latency"
  /\ Push(KeepLatency(tick.got.v))

\* const jitter = await this.getJitter(this.viewerPages[i])
AwaitJitter ==
  /\ tick.at = "jitter"
  /\ \E isSfu \in IsSfuOutcomes(Relay), view \in ViewerJitterOutcomes :
       Got(GetJitter(isSfu, view))

\* if (jitter > 0) this.metrics.jitter.samples.push(jitter)
PushJitter ==
  /\ tick.at = "jitter"
  /\ Push(KeepJitter(tick.got.v))

\* const packetsLost = await this.getPacketsLost(this.viewerPages[i])
AwaitPacketsLost ==
  /\ tick.at = "packetsLost"
  /\ \E view \in ViewerLossOutcomes : Got(GetPacketsLost(view))

\* if (packetsLost >= 0) this.metrics.packetsLost.samples.push(packetsLost)
PushPacketsLost ==
  /\ tick.at = "packetsLost"
  /\ Push(KeepPacketsLost(tick.got.v))

\* await this.collectWebRTCStats(): a failure is caught inside
CollectStats ==
  /\ tick.at = "stats"
  /\ \E ok \in BOOLEAN :
       metrics' = [metrics EXCEPT !.connectionStats = @ \/ ok]
  /\ tick' = IdleTick
  /\ UNCHANGED <<pc, interval, summary, lastMetrics,
                 lastBandwidthMeasurement, result>>
  /\ UNCHANGED runnerVars

RECURSIVE SumSeq(_)
SumSeq(s) == IF s = <<>> THEN 0 ELSE Head(s) + SumSeq(Tail(s))

MinSeq_First(s) == s[1]

\* Math.min(...samples), Math.max(...samples) of a non-empty array
MinSeq(s) == CHOOSE x \in {s[k] : k \in DOMAIN s} : \A k \in DOMAIN s : x <= s[k]

MaxSeq(s) == CHOOSE x \in {s[k] : k \in DOMAIN s} : \A k \in DOMAIN s : x >= s[k]

\* the numbers of an array of readings
Vals(s) == [k \in DOMAIN s |-> s[k].v]

\* average, min and max of a sample array; old when the array is empty
AvgMinMax(old, s) ==
  IF Len(s) > 0
    THEN [average |-> Ratio(SumSeq(s), Len(s)), min |-> MinSeq(s),
          max |-> MaxSeq(s)]
    ELSE old

\* stop(): the summary fields are recomputed for every non-empty array
Reduce(sm, m) ==
  [cpu |-> [average |-> AvgMinMax(sm.cpu, m.cpu).average,
            max |-> AvgMinMax(sm.cpu, m.cpu).max,
            min |-> AvgMinMax(sm.cpu, m.cpu).min],
   memory |-> IF Len(m.memory) > 0
                THEN [average |-> Ratio(SumSeq(m.memory), Len(m.memory)),
                      max |-> MaxSeq(m.memory)]
                ELSE sm.memory,
   bandwidth |-> IF Len(m.bandwidth) > 0
                   THEN [total |-> SumSeq(m.bandwidth),
                         peak |-> MaxSeq(m.bandwidth)]
                   ELSE sm.bandwidth,
   latency |-> AvgMinMax(sm.latency, Vals(m.latency)),
   jitter |-> AvgMinMax(sm.jitter, Vals(m.jitter)),
   packetsLost |-> IF Len(m.packetsLost) > 0
                     THEN [total |-> SumSeq(Vals(m.packetsLost))]
                     ELSE sm.packetsLost]

\* the object stop() returns
Returned(sm, m) ==
  [returned |-> TRUE,
   cpu |-> sm.cpu,
   memory |-> sm.memory,
   bandwidth |-> [total |-> sm.bandwidth.total, peak |-> sm.bandwidth.peak,
                  average |-> IF Len(m.bandwidth) > 0
                                THEN Ratio(sm.bandwidth.total, Len(m.bandwidth))
                                ELSE Zero],
   latency |-> sm.latency,
   jitter |-> sm.jitter,
   packetsLost |-> sm.packetsLost,
   connectionStats |-> m.connectionStats,
   sampleCount |-> Len(m.timestamps),
   duration |-> IF Len(m.timestamps) > 0
                  THEN m.timestamps[Len(m.timestamps)] ELSE 0]

\* const metrics = await metricsCollector.stop(), once the scenario
\* duration has elapsed
CollectorStop ==
  /\ pc = "duration" /\ interval
  /\ Len(metrics.timestamps) >= 1
  /\ interval' = FALSE
  /\ summary' = Reduce(summary, metrics)
  /\ result' = Returned(Reduce(summary, metrics), metrics)
  /\ pc' = "closePresenter"
  /\ UNCHANGED <<metrics, lastMetrics, lastBandwidthMeasurement, tick>>
  /\ UNCHANGED runnerVars

\* x || 0 of an average
OrZero(x) == IF x.num = 0 THEN Zero ELSE x

\* the measured fields of the object runSingleTest returns
MeasuredRow(sc, n, res) ==
  [row |-> SuccessRow(sc, n),
   presenterCpuAvg |-> OrZero(res.cpu.average),
   presenterCpuMax |-> res.cpu.max,
   presenterBandwidthUsage |-> OrZero(res.bandwidth.average),
   avgLatency |-> OrZero(res.latency.average),
   minLatency |-> res.latency.min,
   maxLatency |-> res.latency.max,
   avgJitter |-> OrZero(res.jitter.average),
   textLegibilityScore |-> 0]

TelemetryNext ==
  \/ CollectorStart \/ TickFire \/ ReadSystem \/ ReadBandwidth
  \/ AwaitLatency \/ PushLatency \/ AwaitJitter \/ PushJitter
  \/ AwaitPacketsLost \/ PushPacketsLost \/ CollectStats
  \/ CollectorStop

SpecTelemetry == TelemetryInit /\ [][TelemetryNext]_vars

(***************************************************************************)
(* Properties                                                              *)
(***************************************************************************)
\* statements of runSingleTest and of the try/catch around it
BodyPcs ==
  {"applyClear", "applyNetem", "applyTbf", "newPresenter", "viewerLoop",
   "goto", "waitForSelector", "click", "waitForFunction", "metricsStart",
   "duration", "metricsStop", "closePresenter", "closeViewers", "reset",
   "record", "catch"}

\* statements of main after runAllTests
AfterLoopPcs == {"cleanupBrowser", "cleanupReset", "done"}

\* the row of the current scenario has been handed to writeRecords
ScenarioRecorded == testCount >= 1 /\ pc \in {"loopHead"} \cup AfterLoopPcs

\* rows of results.csv written for scenario n of this run
RowsOf(n) == {i \in DOMAIN csvFile : csvFile[i].scn = n}

\* rows of results.csv written by this run
RunRows == SelectSeq(csvFile, LAMBDA r : r.scn >= 1)

LastRow == csvFile[Len(csvFile)]

Settled == {"CONNECTED", "FAILED"}

\* the path carries exactly the requested (loss, bandwidth) configuration
Installed(p, bandwidth, loss) ==
  /\ p.netem /\ p.loss = loss
  /\ IF bandwidth = "unlimited" THEN ~p.tbf ELSE p.tbf /\ p.rate = bandwidth

\* pages of the current scenario that are open
ScenarioPages == {p \in openPages : p.scn = testCount}

\* statements of applyConditions
ApplyPcs == {"applyClear", "applyNetem", "applyTbf"}

\* statements of setupPresenterPage and setupViewerPage
SetupPcs == {"goto", "waitForSelector", "click", "waitForFunction"}

\* C3: reset() is invoked exactly once per scenario on every exit path:
\* a scenario that has ended has had one reset, and no scenario has more.
C3_ResetOncePerScenario ==
  /\ pc = "loopHead" /\ testCount >= 1 => resetCalls = 1
  /\ pc \in BodyPcs => resetCalls <= 1

\* C4: in every scenario the impairment is installed before a session
\* exists, the reset comes only when no session of the scenario is open,
\* and no scenario ends without its reset.
C4_ApplyBeforeSessionsResetAfter ==
  /\ ScenarioPages # {} /\ pc \in BodyPcs =>
       pc \notin ApplyPcs /\ (err.at \in ApplyPcs => pc # "catch")
  /\ pc \in SetupPcs =>
       Installed(path, Scenario.presenterBandwidth, Scenario.packetLossRate)
  /\ pc = "record" => ScenarioPages = {}
  /\ ScenarioRecorded /\ pc = "loopHead" => resetCalls >= 1

\* C5: when a failed scenario's result is recorded no page is open.
C5_NoSessionOutlivesScenario ==
  (ScenarioRecorded /\ err.msg # "") => openPages = {}

\* scenarios the run is to execute
Planned == IF suite.fixed THEN Len(suite.list) ELSE TotalTests(cfg)

C7_CompletedRowsSurvive ==
  pc \in BodyPcs =>
    /\ Len(RunRows) = testCount - 1
    /\ \A i \in 1..(testCount - 1) : RunRows[i].scn = i
    /\ testCount >= 2 => csvFile = RunRows

\* the process is terminated while the second scenario connects
C7_Witness ==
  /\ crashed /\ testCount = 2 /\ pc = "waitForFunction"
  /\ Len(csvFile) = 1 /\ csvFile[1].scn = 1

\* C8: when the provisioning of the viewers is over, by success or by the
\* failure of a viewer, every one of the numViewers viewers has a session
\* that is CONNECTED or FAILED.
C8_AllViewersSettled ==
  (pc = "metricsStart" \/ (pc = "catch" /\ err.at \in SetupPcs /\ who >= 1)) =>
    Cardinality({w \in 1..Scenario.numViewers : sess[w] \in Settled})
      = Scenario.numViewers

\* the message carries the word "timeout"
ContainsTimeout(msg) == msg \in {MsgSelectorTimeout, MsgConnectionTimeout}

C10_NoMixedPathAfterFailedApply ==
  /\ pc = "applyTbf" => path = TcAddNetem(NoQdisc, Scenario.packetLossRate)
  /\ (pc = "catch" /\ err.at \in ApplyPcs) =>
       \/ path = NoQdisc
       \/ Installed(path, Scenario.presenterBandwidth, Scenario.packetLossRate)

\* statements at which reset() is awaited
ResetPcs == {"reset", "cleanupReset"}

\* a call of reset() returns
ResetStep == pc \in ResetPcs /\ resetCalls' = resetCalls + 1

RECURSIVE IdxAt(_, _)
\* loop indices of the n-th iteration of the nested loops
IdxAt(c, n) == IF n = 0 THEN NoIdx ELSE NextIdx(c, IdxAt(c, n - 1))

\* the scenario a page was opened for
ScenarioOf(p) == ScenarioAt(cfg, IdxAt(cfg, p.scn))

\* C12: scenarios never overlap: at most one scenario is between its
\* applyConditions and the recording of its result, and while a session of
\* a scenario is open the path carries exactly that scenario's
\* (bandwidth, loss) pair.
C12_ScenariosNeverOverlap ==
  /\ testCount - Len(RunRows) \in {0, 1}
  /\ \A p \in openPages :
       Installed(path, ScenarioOf(p).presenterBandwidth,
                 ScenarioOf(p).packetLossRate)

\* collectMetrics decides on the reading it holds
PushStep == tick.got # NoReading /\ tick' # tick

\* C13: in every sampling tick a latency or jitter reading of exactly zero
\* is discarded, no sample being appended, while a packet-loss reading of
\* exactly zero is appended as a sample.
C13_ZeroDiscardedOrRetained ==
  [][(PushStep /\ tick.got.v = 0) =>
       /\ tick.at \in {"latency", "jitter"} => metrics' = metrics
       /\ tick.at = "packetsLost" =>
            metrics' = [metrics EXCEPT !.packetsLost = Append(@, tick.got)]]_vars

\* a tick in which latency and jitter left no sample and the viewer's
\* measured packet loss of zero is in the samples
C13_Witness ==
  /\ tick.at = "stats"
  /\ metrics.latency = <<>> /\ metrics.jitter = <<>>
  /\ metrics.packetsLost = <<[v |-> 0, src |-> "viewer"]>>

\* the readings the getters make up when a query rejects or finds no data
Defaulted(s) == {k \in DOMAIN s : s[k].src = "default"}

\* the scenario's row once stop() has returned
ScenarioResult == MeasuredRow(Scenario, testCount, result)

\* C14: a metric read that finds no data or whose query fails never throws
\* out of the collector and never fails the scenario: no sample is
\* recorded for it, the collector goes on, and the scenario's result
\* carries no error.
C14_UnavailableReadSkipped ==
  /\ err = NoError /\ pc # "catch"
  /\ \A at \in LoopStages : Defaulted(metrics[at]) = {}
  /\ result.returned =>
       ScenarioResult.row.success /\ ScenarioResult.row.errorMsg = ""

\* the summary of a metric that has average, min and max is all zero
AllZero(m) == m.average = Zero /\ m.min = 0 /\ m.max = 0

\* C15: in what stop() returns, every metric without a sample has the
\* neutral value 0 in all of its summary fields, and the sample count
\* recorded in the result tells that the metric has no sample.
C15_EmptyMetricNeutral ==
  result.returned =>
    /\ metrics.cpu = <<>> => AllZero(result.cpu)
    /\ metrics.memory = <<>> =>
         result.memory.average = Zero /\ result.memory.max = 0
    /\ metrics.bandwidth = <<>> =>
         /\ result.bandwidth.average = Zero
         /\ result.bandwidth.total = 0 /\ result.bandwidth.peak = 0
    /\ metrics.latency = <<>> => AllZero(result.latency)
    /\ metrics.jitter = <<>> => AllZero(result.jitter)
    /\ metrics.packetsLost = <<>> => result.packetsLost.total = 0
    /\ \A x \in {"cpu", "memory", "bandwidth", "latency", "jitter",
                 "packetsLost"} :
         metrics[x] = <<>> => result.sampleCount = 0

\* no field of the summary of latency or packet loss is negative
NonNegative(sm) ==
  /\ sm.packetsLost.total >= 0
  /\ sm.latency.average.num >= 0 /\ sm.latency.average.den > 0
  /\ sm.latency.min >= 0 /\ sm.latency.max >= 0

\* C16: after any sequence of sampling ticks every recorded packetsLost
\* value, sample or total, is >= 0 and every recorded latency value, sample
\* or average/min/max, is >= 0: a negative reading is never recorded.
C16_NoNegativeRecorded ==
  /\ \A k \in DOMAIN metrics.packetsLost : metrics.packetsLost[k].v >= 0
  /\ \A k \in DOMAIN metrics.latency : metrics.latency[k].v >= 0
  /\ NonNegative(summary)
  /\ result.returned => NonNegative(result)

\* stop() has summarised latency and packet-loss samples, and the tick in
\* flight holds a negative reading
C16_Witness ==
  /\ result.returned /\ tick.got.v < 0
  /\ result.latency.min > 0 /\ result.packetsLost.total > 0

\* C17: in the relay architecture, where the presenter exposes a send
\* transport, no jitter sample is ever collected, and the result carries a
\* jitter average of 0.
C17_RelayJitterUnavailable ==
  Relay =>
    /\ metrics.jitter = <<>>
    /\ result.returned => result.jitter.average = Zero

\* C18: in the relay architecture every latency sample is the
\* presenter-to-relay round-trip time read from the presenter's send
\* transport; none comes from a viewer-side source.
C18_RelayLatencyFromPresenter ==
  Relay => \A k \in DOMAIN metrics.latency : metrics.latency[k].src = "presenter"

\* C19: recording appends: every write leaves the rows already in the
\* result table, those of an earlier run included, in place and adds one
\* row after them.
C19_RecordingAppends ==
  [][csvFile' # csvFile =>
       /\ Len(csvFile') = Len(csvFile) + 1
       /\ SubSeq(csvFile', 1, Len(csvFile)) = csvFile]_vars

\* viewers whose provisioning has started and has not settled
ProvisioningViewers ==
  {w \in 1..MaxViewers : sess[w] \notin Settled \cup {"NONE"}}

\* C20: the viewers of a scenario are provisioned concurrently: while the
\* provisioning of viewer i has not settled and a viewer i+1 is to come,
\* the provisioning of the next viewer can start, and never more than
\* numViewers provisionings are in flight.
C20_ViewersProvisionedConcurrently ==
  /\ (Running /\ pc \in SetupPcs /\ who >= 1 /\ who < Scenario.numViewers) =>
       ENABLED NewViewerPage
  /\ pc \in BodyPcs =>
       Cardinality(ProvisioningViewers) <= Scenario.numViewers

\* statements at which the sessions of a scenario are closed
ClosePcs == {"closePresenter", "closeViewers"}

\* C21: closing a session never throws: a failing close does not reach the
\* catch block, and a scenario whose telemetry was taken ends with all its
\* sessions closed, its reset done and a successful row, whatever a close
\* did.
C21_TeardownNeverThrows ==
  /\ pc = "catch" => err.at \notin ClosePcs
  /\ (pc = "loopHead" /\ testCount >= 1 /\ err.at \notin (ApplyPcs \cup SetupPcs)) =>
       /\ ScenarioPages = {}
       /\ resetCalls >= 1
       /\ LastRow.success

(***************************************************************************)
(* Progress of the run.  Every puppeteer call of a scenario is bounded     *)
(* (goto and the waits by their timeout option, newPage and close by       *)
(* protocolTimeout), the sleeps are timers; executeCommand spawns bash     *)
(* and settles on the child's close event only, with no timeout and no     *)
(* kill.  The process is not terminated from outside here.                 *)
(***************************************************************************)
\* statements of runSingleTest that await a shell command
ShellPcs == ApplyPcs \cup {"reset"}

\* the spawned bash never exits: the promise of executeCommand never
\* settles and the await of it never resumes
ExecuteCommandHangs ==
  /\ Running /\ pc \in ShellPcs
  /\ pc' = "awaitShell"
  /\ UNCHANGED <<cfg, suite, idx, testCount, who, browser, path, openPages,
                 sess, viewerPages, interval, err, csvFile, csvAppend,
                 resetCalls, crashed>>
  /\ UNCHANGED mcVars

ProgressNext ==
  \/ Initialize \/ LoopNext \/ LoopExit
  \/ ApplyClear \/ ApplyNetem \/ ApplyTbf
  \/ NewPresenterPage \/ NewViewerPage \/ ViewersProvisioned
  \/ Goto \/ WaitForSelector \/ Click \/ WaitForFunction
  \/ MetricsStart \/ Duration \/ MetricsStop
  \/ ClosePresenter \/ CloseViewer \/ PagesClosed \/ ResetConditions
  \/ RecordResult \/ CatchRecord
  \/ CleanupBrowser \/ CleanupReset
  \/ ExecuteCommandHangs

\* the event loop runs every continuation that is ready
SpecProgress == Init /\ [][ProgressNext]_vars /\ WF_vars(ProgressNext)

\* runAllTests has returned and every planned scenario has a row
MatrixCompleted ==
  /\ pc \in AfterLoopPcs
  /\ testCount = Planned
  /\ \A n \in 1..Planned : RowsOf(n) # {}

\* C22: every suspension of a scenario is bounded, so once the browser is
\* launched the run eventually reaches the state in which runAllTests has
\* returned and all scenarios of the matrix have a recorded result.
C22_MatrixCompletes == (pc = "loopHead") ~> MatrixCompleted

\* C23: a shaping command that fails during applyConditions is only logged:
\* the scenario is not handed to the catch block by the apply error, and a
\* scenario that ended after a failed apply still had its presenter session
\* provisioned.
C23_ApplyErrorScenarioProceeds ==
  /\ pc = "catch" => err.at \notin ApplyPcs
  /\ (pc = "loopHead" /\ testCount >= 1 /\ err.at \in ApplyPcs) =>
       sess[0] \in Settled

\* the step of runSingleTest / runAllTests a statement belongs to, 0 outside
\* the success path: 1 apply impairment, 2 provision presenter, 3 provision
\* viewers, 4 start telemetry, 5 wait, 6 stop telemetry, 7 close sessions,
\* 8 reset impairment, 9 build and record the result
StepOf(p, w) ==
  CASE p \in ApplyPcs -> 1
    [] p = "newPresenter" \/ (p \in SetupPcs /\ w = 0) -> 2
    [] p = "viewerLoop" \/ (p \in SetupPcs /\ w > 0) -> 3
    [] p = "metricsStart" -> 4
    [] p = "duration" -> 5
    [] p = "metricsStop" -> 6
    [] p \in ClosePcs -> 7
    [] p = "reset" -> 8
    [] p = "record" -> 9
    [] OTHER -> 0

Step == StepOf(pc, who)

\* a scenario enters the success path at step 1 only, and from a step goes
\* on in that step or to the one after it
InOrderStep ==
  /\ (Step = 0 /\ Step' # 0) => Step' = 1
  /\ (Step # 0 /\ Step' # 0) => Step' \in {Step, Step + 1}

\* what the earlier steps of the scenario under way have completed
StepsCompleted ==
  /\ Step \in 2..8 =>
       Installed(path, Scenario.presenterBandwidth, Scenario.packetLossRate)
  /\ Step >= 3 => sess[0] = "CONNECTED" 
  /\ Step >= 4 =>
       /\ viewerPages = Scenario.numViewers
       /\ \A i \in 0..Scenario.numViewers : sess[i] = "CONNECTED"
  /\ Step \in 4..6 => \A i \in 0..Scenario.numViewers : Page(i) \in openPages
  /\ interval <=> Step \in {5, 6}
  /\ Step >= 8 => ScenarioPages = {}
  /\ Step \in 1..8 => resetCalls = 0
  /\ Step = 9 => resetCalls = 1
  /\ Step \in 1..9 => RowsOf(testCount) = {}

\* C24: on the success path of a scenario the steps happen in this order,
\* none skipped and each complete before the next starts: apply impairment,
\* provision presenter, provision all viewers, start telemetry, wait, stop
\* telemetry, close the sessions, reset impairment, record the result.
C24_StepsInOrder == [][InOrderStep]_vars /\ []StepsCompleted

\* a throttled scenario with two viewers is about to be recorded as measured
C24_Witness ==
  /\ pc = "record"
  /\ Scenario.numViewers = 2 /\ Scenario.presenterBandwidth # "unlimited"

(***************************************************************************)
(* simpleConnectionTest (simple_test.js): one presenter session, set up    *)
(* with the same steps as setupPresenterPage, that decides by itself       *)
(* whether the session is connected.  The client application is the        *)
(* environment: it renders the button and sets window.isConnected.         *)
(***************************************************************************)
\* what the page can show: window.isConnected and the text of the button
\* ("none": the document has no button)
WindowStates ==
  [isConnected : {"undefined", "false", "true"},
   buttonText : {"none", "Connect", "Disconnect"}]

\* what a freshly loaded page shows: not connected, the button (if the
\* page rendered one) offers to connect
LoadedStates ==
  {w \in WindowStates : w.isConnected # "true" /\ w.buttonText # "Disconnect"}

\* if (finalState.isConnected)
Truthy(v) == v = "true"

\* the if / else if / else over finalState: true when isConnected is truthy
\* and also when the button reads Disconnect
SuccessVerdict(fs) ==
  Truthy(fs.isConnected) \/ fs.buttonText = "Disconnect"

SmokeInit ==
  /\ cfg = DefaultConfig
  /\ suite = NoSuite
  /\ pc = "launch"
  /\ browser = FALSE
  /\ csvFile = <<>>
  /\ sink = "sound"
  /\ ServersStarted
  /\ Constructed

\* const browser = await puppeteer.launch(...), before the try: a
\* rejection rejects simpleConnectionTest itself
SmokeLaunch ==
  /\ pc = "launch"
  /\ \/ browser' = TRUE /\ pc' = "newPage" /\ err' = err
     \/ /\ browser' = FALSE /\ pc' = "done"
        /\ err' = [msg |-> MsgClose, at |-> pc]
  /\ UNCHANGED <<cfg, suite, idx, testCount, who, path, openPages, sess,
                 viewerPages, interval, csvFile, csvAppend, resetCalls,
                 crashed, results, sink, serverVars>>
  /\ UNCHANGED mcVars

\* an await inside the try rejects: catch (error) { return false }
SmokeThrows(msg) ==
  /\ err' = [msg |-> msg, at |-> pc]
  /\ sess' = [sess EXCEPT ![0] = "FAILED"]
  /\ verdict' = "false"
  /\ pc' = "finally"

\* const page = await browser.newPage()
SmokeNewPage ==
  /\ pc = "newPage"
  /\ \/ /\ openPages' = openPages \cup {Page(0)}
        /\ sess' = [sess EXCEPT ![0] = "CREATED"]
        /\ pc' = "evaluateOnNewDocument"
        /\ UNCHANGED <<err, verdict>>
     \/ openPages' = openPages /\ SmokeThrows(MsgClose)
  /\ UNCHANGED <<cfg, suite, idx, testCount, who, browser, path, viewerPages,
                 interval, csvFile, csvAppend, resetCalls, crashed, results, sink, serverVars>>
  /\ UNCHANGED <<calls, metrics, summary, lastMetrics,
                 lastBandwidthMeasurement, tick, result, window, finalState>>

\* await page.evaluateOnNewDocument(...): the media mocks are registered
SmokeInject ==
  /\ pc = "evaluateOnNewDocument"
  /\ \/ pc' = "goto" /\ UNCHANGED <<err, sess, verdict>>
     \/ SmokeThrows(MsgClose)
  /\ UNCHANGED <<cfg, suite, idx, testCount, who, browser, path, openPages,
                 viewerPages, interval, csvFile, csvAppend, resetCalls,
                 crashed, results, sink, serverVars>>
  /\ UNCHANGED <<calls, metrics, summary, lastMetrics,
                 lastBandwidthMeasurement, tick, result, window, finalState>>

\* await page.goto(url, {waitUntil: 'networkidle0', timeout: 30000})
SmokeGoto ==
  /\ pc = "goto"
  /\ \/ /\ window' \in LoadedStates
        /\ sess' = [sess EXCEPT ![0] = "NAVIGATED"]
        /\ pc' = "queryButtons"
        /\ UNCHANGED <<err, verdict>>
     \/ window' = window /\ SmokeThrows(MsgNavigation)
  /\ UNCHANGED <<cfg, suite, idx, testCount, who, browser, path, openPages,
                 viewerPages, interval, csvFile, csvAppend, resetCalls,
                 crashed, results, sink, serverVars>>
  /\ UNCHANGED <<calls, metrics, summary, lastMetrics,
                 lastBandwidthMeasurement, tick, result, finalState>>

\* const buttons = await page.$$('button'); if (buttons.length > 0) ...
\* else return false
SmokeQueryButtons ==
  /\ pc = "queryButtons"
  /\ \/ /\ window.buttonText # "none"
        /\ sess' = [sess EXCEPT ![0] = "AWAITING_USER_GESTURE"]
        /\ pc' = "buttonText"
        /\ UNCHANGED <<err, verdict>>
     \/ /\ window.buttonText = "none"
        /\ sess' = [sess EXCEPT ![0] = "FAILED"]
        /\ verdict' = "false"
        /\ pc' = "finally"
        /\ err' = err
     \/ SmokeThrows(MsgClose)
  /\ UNCHANGED <<cfg, suite, idx, testCount, who, browser, path, openPages,
                 viewerPages, interval, csvFile, csvAppend, resetCalls,
                 crashed, results, sink, serverVars>>
  /\ UNCHANGED <<calls, metrics, summary, lastMetrics,
                 lastBandwidthMeasurement, tick, result, window, finalState>>

\* const buttonText = await page.evaluate(...), logged only
SmokeButtonText ==
  /\ pc = "buttonText"
  /\ \/ pc' = "click" /\ UNCHANGED <<err, sess, verdict>>
     \/ SmokeThrows(MsgClose)
  /\ UNCHANGED <<cfg, suite, idx, testCount, who, browser, path, openPages,
                 viewerPages, interval, csvFile, csvAppend, resetCalls,
                 crashed, results, sink, serverVars>>
  /\ UNCHANGED <<calls, metrics, summary, lastMetrics,
                 lastBandwidthMeasurement, tick, result, window, finalState>>

\* await new Promise(resolve => setTimeout(resolve, 3000))
SmokeSleep ==
  /\ pc = "sleep"
  /\ pc' = "stateCheck"
  /\ UNCHANGED <<cfg, suite, idx, testCount, who, browser, path, openPages,
                 sess, viewerPages, interval, err, csvFile, csvAppend,
                 resetCalls, crashed, results, sink, serverVars>>
  /\ UNCHANGED <<calls, metrics, summary, lastMetrics,
                 lastBandwidthMeasurement, tick, result, window, finalState, verdict>>

\* the evaluate click inside its own try: a rejection is logged and the
\* test continues
SmokeClick ==
  /\ pc = "click"
  /\ sess' = [sess EXCEPT ![0] = "CONNECTING"]
  /\ pc' = "sleep"
  /\ UNCHANGED <<cfg, suite, idx, testCount, who, browser, path, openPages,
                 viewerPages, interval, err, csvFile, csvAppend, resetCalls,
                 crashed, results, sink, serverVars>>
  /\ UNCHANGED <<calls, metrics, summary, lastMetrics,
                 lastBandwidthMeasurement, tick, result, window, finalState, verdict>>

\* Promise.race of the page.evaluate with the 5 s timer, and the return
\* statements that follow it
SmokeStateCheck ==
  /\ pc = "stateCheck"
  /\ \/ /\ finalState' = window
        /\ verdict' = IF SuccessVerdict(window) THEN "true" ELSE "false"
        /\ sess' = [sess EXCEPT ![0] =
                      IF SuccessVerdict(window) THEN "CONNECTED" ELSE "FAILED"]
     \/ /\ finalState' = finalState
        /\ verdict' = "false"
        /\ sess' = [sess EXCEPT ![0] = "FAILED"]
  /\ pc' = "finally"
  /\ UNCHANGED <<cfg, suite, idx, testCount, who, browser, path, openPages,
                 viewerPages, interval, err, csvFile, csvAppend, resetCalls,
                 crashed, results, sink, serverVars>>
  /\ UNCHANGED <<calls, metrics, summary, lastMetrics,
                 lastBandwidthMeasurement, tick, result, window>>

\* finally { await browser.close() }
SmokeFinally ==
  /\ pc = "finally"
  /\ browser' = FALSE
  /\ openPages' = {}
  /\ window' = NoWindow
  /\ pc' = "done"
  /\ UNCHANGED <<cfg, suite, idx, testCount, who, path, sess, viewerPages,
                 interval, err, csvFile, csvAppend, resetCalls, crashed, results, sink, serverVars>>
  /\ UNCHANGED <<calls, metrics, summary, lastMetrics,
                 lastBandwidthMeasurement, tick, result, finalState, verdict>>

\* the client application changes what the loaded page shows
PageUpdates ==
  /\ pc \in {"queryButtons", "buttonText", "click", "sleep", "stateCheck"}
  /\ window' \in WindowStates \ {window}
  /\ UNCHANGED <<cfg, suite, idx, testCount, pc, who, browser, path,
                 openPages, sess, viewerPages, interval, err, csvFile,
                 csvAppend, resetCalls, crashed, results, sink, serverVars>>
  /\ UNCHANGED <<calls, metrics, summary, lastMetrics,
                 lastBandwidthMeasurement, tick, result, finalState, verdict>>

SmokeNext ==
  \/ SmokeLaunch \/ SmokeNewPage \/ SmokeInject \/ SmokeGoto \/ SmokeQueryButtons
  \/ SmokeButtonText \/ SmokeClick \/ SmokeSleep \/ SmokeStateCheck
  \/ SmokeFinally
  \/ PageUpdates

SpecSmoke == SmokeInit /\ [][SmokeNext]_vars

\* how far a session has come
SessionRank(st) ==
  CASE st = "NONE" -> 0
    [] st = "CREATED" -> 1
    [] st = "NAVIGATED" -> 2
    [] st = "AWAITING_USER_GESTURE" -> 3
    [] st = "CONNECTING" -> 4
    [] st \in Settled -> 5

\* one step of session w: forward only, each state entered from the
\* statement that stands for it, settled states left by no step of the
\* scenario
SessionStep(w) ==
  sess'[w] # sess[w] =>
    \/ testCount' # testCount /\ sess' = NoSessions
    \/ /\ SessionRank(sess'[w]) > SessionRank(sess[w])
       /\ sess'[w] = "NAVIGATED" => pc = "goto" /\ sess[w] = "CREATED"
       /\ sess'[w] = "AWAITING_USER_GESTURE" => sess[w] = "NAVIGATED"
       /\ sess'[w] = "CONNECTING" =>
            pc = "click" /\ sess[w] = "AWAITING_USER_GESTURE"
       /\ sess'[w] = "CONNECTED" => sess[w] = "CONNECTING"

\* C25: a session moves only forward through CREATED, NAVIGATED,
\* AWAITING_USER_GESTURE, CONNECTING to CONNECTED or FAILED, the connect
\* action comes after the page has loaded and the button exists, and the
\* session is reported connected only if window.isConnected was read true.
C25_SessionForwardAndSignalled ==
  /\ [][\A w \in 0..MaxViewers : SessionStep(w)]_vars
  /\ [](sess[0] = "CONNECTED" /\ verdict # "none" =>
          finalState.isConnected = "true")

(***************************************************************************)
(* stop() as a function of the collected samples: the collector has        *)
(* sampled for a while, no tick is in flight, and stop() is called.        *)
(***************************************************************************)
MaxSamples == 2
MaxSample == 2

\* the arrays of at most n numbers of S
SeqsUpTo(S, n) == UNION {[1..k -> S] : k \in 0..n}

\* samples pushed for viewer-side readings
AsReadings(s) == [k \in DOMAIN s |-> [v |-> s[k], src |-> "viewer"]]

\* cpu samples lie in 0..100 and may be 0; latency and jitter samples
\* passed the > 0 filters
SummaryInit ==
  /\ cfg = [architectures |-> <<"P2P">>, numViewers |-> <<1>>,
            packetLossRates |-> <<0>>, presenterBandwidths |-> <<"5mbit">>,
            repetitions |-> 1]
  /\ suite = NoSuite
  /\ idx = NextIdx(cfg, NoIdx)
  /\ testCount = 1
  /\ pc = "duration"
  /\ who = 1
  /\ browser = TRUE
  /\ path = TcAddTbf(TcAddNetem(NoQdisc, 0), "5mbit")
  /\ openPages = {[scn |-> 1, who |-> w] : w \in 0..1}
  /\ sess = [w \in 0..MaxViewers |-> IF w <= 1 THEN "CONNECTED" ELSE "NONE"]
  /\ viewerPages = 1
  /\ interval = TRUE
  /\ err = NoError
  /\ csvFile = <<>>
  /\ csvAppend = FALSE
  /\ resetCalls = 0
  /\ crashed = FALSE
  /\ results = <<>>
  /\ sink = "sound"
  /\ ServersStarted
  /\ \E c \in SeqsUpTo(0..MaxSample, MaxSamples),
        l, j \in SeqsUpTo(1..MaxSample, MaxSamples) :
       metrics = [NewMetrics EXCEPT
                    !.cpu = c,
                    !.memory = [k \in DOMAIN c |-> 8],
                    !.latency = AsReadings(l),
                    !.jitter = AsReadings(j),
                    !.timestamps = [k \in 1..MaxSamples |-> k]]
  /\ summary = NewSummary
  /\ lastMetrics = (metrics.cpu # <<>>)
  /\ lastBandwidthMeasurement = FALSE
  /\ tick = IdleTick
  /\ result = NoResult
  /\ window = NoWindow
  /\ finalState = NoFinalState
  /\ verdict = "none"
  /\ calls = <<>>

SummaryNext == CollectorStop

SpecSummary == SummaryInit /\ [][SummaryNext]_vars

\* res holds the smallest and the largest number of s and their mean
Summarises(res, s) ==
  /\ \E k \in DOMAIN s : res.min = s[k]
  /\ \E k \in DOMAIN s : res.max = s[k]
  /\ \A k \in DOMAIN s : res.min <= s[k] /\ s[k] <= res.max
  /\ res.average.den > 0
  /\ res.average.num * Len(s) = SumSeq(s) * res.average.den
  /\ res.min * res.average.den <= res.average.num
  /\ res.average.num <= res.max * res.average.den

C27_NoPacketLossDefaultedToZero ==
  /\ (tick.at = "packetsLost" /\ tick.got.src = "default") =>
       ~KeepPacketsLost(tick.got.v)
  /\ \A k \in DOMAIN metrics.packetsLost :
       metrics.packetsLost[k].src = "viewer"

(***************************************************************************)
(* Sampling ticks that outlast the interval.  setInterval calls the async  *)
(* callback every second whether or not the collectMetrics it started      *)
(* before has returned, so several invocations can stand at an await at    *)
(* the same time; each goes on when its own await settles.  stop() and     *)
(* the page closes of runSingleTest follow.                                 *)
(***************************************************************************)
\* the reading r, marked with the invocation k that took it
Tagged(r, k) == [v |-> r.v, src |-> r.src, t |-> k]

\* invocations of collectMetrics that have not returned
InFlight == {k \in DOMAIN calls : calls[k].at # "idle"}

\* a query of a closed page rejects
Reach(page, outs) == IF page \in openPages THEN outs ELSE {Throws}

\* the page the read of stage c.at queries first, Page(-1) when it uses
\* the shell
TargetPage(c) ==
  CASE c.at \in {"system", "latency", "jitter", "stats"} -> Page(0)
    [] c.at = "packetsLost" -> Page(c.i + 1)
    [] OTHER -> Page(-1)

\* the interval timer fires: a new invocation pushes its timestamp and
\* awaits getSystemMetrics
TimerFires ==
  /\ interval
  /\ Len(calls) < MaxTicks
  /\ metrics' = [metrics EXCEPT !.timestamps = Append(@, Len(@) + 1)]
  /\ calls' = Append(calls, Enter("system", viewerPages))
  /\ UNCHANGED <<cfg, suite, idx, testCount, pc, who, browser, path,
                 openPages, sess, viewerPages, interval, err, csvFile,
                 csvAppend, resetCalls, crashed, results, sink, serverVars>>
  /\ UNCHANGED <<summary, lastMetrics, lastBandwidthMeasurement, tick,
                 result, smokeVars>>

\* invocation k goes on to its next await; nothing else of the collector
\* or the runner changes
Proceeds(k) ==
  /\ calls' = [calls EXCEPT ![k] = Advance(@, viewerPages)]
  /\ UNCHANGED <<cfg, suite, idx, testCount, pc, who, browser, path,
                 openPages, sess, viewerPages, interval, err, csvFile,
                 csvAppend, resetCalls, crashed, results, sink, serverVars>>
  /\ UNCHANGED <<summary, tick, result, smokeVars>>

\* getSystemMetrics of invocation k settles
CallSystem(k) ==
  /\ calls[k].at = "system"
  /\ \E out \in Reach(Page(0), {Throws, Num(150)}) :
       LET r == GetSystemMetrics(out, lastMetrics) IN
         /\ metrics' = IF r.ok
                         THEN [metrics EXCEPT !.cpu = Append(@, r.cpu),
                                              !.memory = Append(@, r.memory)]
                         ELSE metrics
         /\ lastMetrics' = (lastMetrics \/ out.st = "num")
  /\ UNCHANGED lastBandwidthMeasurement
  /\ Proceeds(k)

\* getBandwidthUsage of invocation k settles
CallBandwidth(k) ==
  /\ calls[k].at = "bandwidth"
  /\ \E out \in {Null, Num(5)} :
       LET b == GetBandwidthUsage(out, lastBandwidthMeasurement) IN
         /\ metrics' = IF KeepBandwidth(b)
                         THEN [metrics EXCEPT !.bandwidth = Append(@, b)]
                         ELSE metrics
         /\ lastBandwidthMeasurement' =
              (lastBandwidthMeasurement \/ out.st = "num")
  /\ UNCHANGED lastMetrics
  /\ Proceeds(k)

\* a per-viewer getter of invocation k returns r: it is pushed when keep
Pushes(k, r, keep) ==
  /\ metrics' = IF keep
                  THEN [metrics EXCEPT ![calls[k].at] = Append(@, Tagged(r, k))]
                  ELSE metrics
  /\ UNCHANGED <<lastMetrics, lastBandwidthMeasurement>>
  /\ Proceeds(k)

CallLatency(k) ==
  /\ calls[k].at = "latency"
  /\ \E pres \in Reach(Page(0), {Null}),
        view \in Reach(Page(calls[k].i + 1), {Num(1)}) :
       Pushes(k, GetLatency(pres, view), KeepLatency(GetLatency(pres, view).v))

CallJitter(k) ==
  /\ calls[k].at = "jitter"
  /\ \E isSfu \in Reach(Page(0), {Num(0)}),
        view \in Reach(Page(calls[k].i + 1), {Num(3)}) :
       Pushes(k, GetJitter(isSfu, view), KeepJitter(GetJitter(isSfu, view).v))

CallPacketsLost(k) ==
  /\ calls[k].at = "packetsLost"
  /\ \E view \in Reach(Page(calls[k].i + 1), {Num(4)}) :
       Pushes(k, GetPacketsLost(view), KeepPacketsLost(GetPacketsLost(view).v))

\* collectWebRTCStats of invocation k settles and collectMetrics returns
CallStats(k) ==
  /\ calls[k].at = "stats"
  /\ \E ok \in {TargetPage(calls[k]) \in openPages} :
       metrics' = [metrics EXCEPT !.connectionStats = @ \/ ok]
  /\ calls' = [calls EXCEPT ![k] = IdleTick]
  /\ UNCHANGED <<cfg, suite, idx, testCount, pc, who, browser, path,
                 openPages, sess, viewerPages, interval, err, csvFile,
                 csvAppend, resetCalls, crashed, results, sink, serverVars>>
  /\ UNCHANGED <<summary, lastMetrics, lastBandwidthMeasurement, tick,
                 result, smokeVars>>

OverlapNext ==
  \/ CollectorStart
  \/ TimerFires
  \/ \E k \in DOMAIN calls : CallSystem(k)
  \/ \E k \in DOMAIN calls : CallBandwidth(k)
  \/ \E k \in DOMAIN calls : CallLatency(k)
  \/ \E k \in DOMAIN calls : CallJitter(k)
  \/ \E k \in DOMAIN calls : CallPacketsLost(k)
  \/ \E k \in DOMAIN calls : CallStats(k)
  \/ CollectorStop
  \/ ClosePresenter \/ CloseViewer \/ PagesClosed

SpecOverlap == TelemetryInit /\ [][OverlapNext]_vars

\* the arrays of the collector
SampleArrays ==
  {"cpu", "memory", "bandwidth", "latency", "jitter", "packetsLost",
   "timestamps"}

\* s is an initial part of t
IsPrefix(s, t) == Len(s) <= Len(t) /\ \A k \in DOMAIN s : s[k] = t[k]

\* C28: samples are append-only and ordered by collection time: a step
\* only appends to the arrays, the timestamps never decrease, and in the
\* latency, jitter and packet-loss arrays no sample of an earlier tick
\* stands after a sample of a later tick, however the callbacks interleave.
C28_SamplesAppendOnlyOrdered ==
  /\ [][\A x \in SampleArrays : IsPrefix(metrics[x], metrics'[x])]_vars
  /\ [](\A a, b \in DOMAIN metrics.timestamps :
          a < b => metrics.timestamps[a] <= metrics.timestamps[b])
  /\ [](\A x \in LoopStages : \A a, b \in DOMAIN metrics[x] :
          a < b => metrics[x][a].t <= metrics[x][b].t)

\* an invocation goes on to a read whose page is already closed
QueriesClosedPage ==
  \E k \in DOMAIN calls :
    /\ calls'[k] # calls[k]
    /\ calls'[k].at \notin {"idle", "bandwidth"}
    /\ TargetPage(calls'[k]) \notin openPages

\* C29: once stop() has returned the samples are final: no invocation of
\* collectMetrics that was in flight when stop() was called appends a
\* sample afterwards or queries a page that has been closed.
C29_SamplesFinalAfterStop ==
  [][result.returned =>
       /\ \A x \in SampleArrays : metrics'[x] = metrics[x]
       /\ ~QueriesClosedPage]_vars

\* C30: at most one invocation of collectMetrics is in progress at any
\* time: the timer never starts the next one before the one before it has
\* returned.
C30_OneTickAtATime == Cardinality(InFlight) <= 1

(***************************************************************************)
(* The run on a file system that may reject a write of results.csv (the    *)
(* file became read-only, the volume is full): the matrix itself can then  *)
(* throw out of runAllTests.                                               *)
(***************************************************************************)
Sinks == {"sound", "faulty"}

SinkInit ==
  /\ cfg \in SmallConfigs
  /\ suite = NoSuite
  /\ pc = "start"
  /\ browser = FALSE
  /\ csvFile \in {<<>>, <<PreviousRunRow>>}
  /\ sink \in Sinks
  /\ ServersStarted
  /\ Constructed

SpecSink == SinkInit /\ [][Next]_vars

\* main returned
MainReturned == Running /\ pc = "done"

\* the step that ends the run is the reset() of cleanup: it is one more
\* invocation of reset and it installs nothing
EndsWithReset ==
  (pc' = "done" /\ pc # "done") =>
     /\ pc = "cleanupReset"
     /\ resetCalls' = resetCalls + 1
     /\ path' \in {path, NoQdisc}

\* no applyConditions statement is executed once cleanup has begun
NoApplyAfterCleanup == pc \in AfterLoopPcs => pc' \notin ApplyPcs

C32_ResultsMatchRows ==
  ScenarioRecorded =>
    /\ Len(results) = testCount
    /\ \A n \in DOMAIN results :
         /\ results[n].scn = n
         /\ \A i \in RowsOf(n) : csvFile[i] = results[n]

(***************************************************************************)
(* The signaling server (src/unnamed/part_000).  Sockets connect, join     *)
(* rooms, forward offers, answers and candidates, and disconnect; a timer  *)
(* sweeps the empty rooms.  socket.rooms is the set of adapter rooms of    *)
(* the socket, which holds the room named by the socket's own id from the  *)
(* connection on; socket.to(x).emit reaches every socket of adapter room x *)
(* except the sender.                                                      *)
(***************************************************************************)
harnessVars == <<cfg, suite, idx, testCount, pc, who, browser, path,
                 openPages, sess, viewerPages, interval, err, csvFile,
                 csvAppend, resetCalls, crashed, metrics, summary,
                 lastMetrics, lastBandwidthMeasurement, tick, result,
                 smokeVars, calls, results, sink>>

\* the roomId values clients send: a room name, and the id of a socket
RoomIds == {"r1", "s1"}

Roles == {"presenter", "viewer"}
Modes == {"p2p"}
ForwardKinds == {"offer", "answer", "ice-candidate"}
Payloads == {"sdp-a", "sdp-b"}

\* this.presenter = null
NoPresenter == "null"

\* one packet to one socket; the fields an event does not carry are empty
Packet(to, event, id, payload, roomId, participants) ==
  [to |-> to, event |-> event, id |-> id, payload |-> payload,
   roomId |-> roomId, participants |-> participants]

\* the event a handler was called for, in the same way
Event(event, socket, roomId, role, mode, to, payload) ==
  [event |-> event, socket |-> socket, roomId |-> roomId, role |-> role,
   mode |-> mode, to |-> to, payload |-> payload]

\* new Room(id)
NewRoom(id) == [id |-> id, participants |-> [p \in {} |-> p], presenter |-> NoPresenter]

\* Room.addParticipant
AddParticipant(room, socketId, role, mode) ==
  [room EXCEPT
     !.participants =
        [p \in DOMAIN room.participants \cup {socketId} |->
           IF p = socketId
             THEN [socketId |-> socketId, role |-> role, mode |-> mode]
             ELSE room.participants[p]],
     !.presenter = IF role = "presenter" THEN socketId ELSE @]

\* Room.removeParticipant
RemoveParticipant(room, socketId) ==
  IF socketId \in DOMAIN room.participants
    THEN [room EXCEPT
            !.participants =
               [p \in DOMAIN room.participants \ {socketId} |->
                  room.participants[p]],
            !.presenter =
               IF room.participants[socketId].role = "presenter"
                 THEN NoPresenter ELSE @]
    ELSE room

\* Room.getParticipants, as a set
GetParticipants(room) ==
  {room.participants[p] : p \in DOMAIN room.participants}

Undefined == "undefined"

\* Room.getPresenter: this.participants.get(this.presenter), or undefined
GetPresenter(room) ==
  IF room.presenter \in DOMAIN room.participants
    THEN room.participants[room.presenter] ELSE Undefined

\* the sockets of adapter room x
Members(x, sr) == {s \in SocketIds : x \in sr[s]}

\* socket.to(x).emit(event, data) by socket s
ToEmit(s, x, sr, event, id, payload) ==
  {Packet(t, event, id, payload, "", {}) : t \in Members(x, sr) \ {s}}

\* io.on('connection'): the socket is in the adapter room of its own id
Connection(s) ==
  /\ sockets[s] = "unborn"
  /\ sockets' = [sockets EXCEPT ![s] = "connected"]
  /\ socketRooms' = [socketRooms EXCEPT ![s] = {s}]
  /\ sent' = {}
  /\ handled' = Event("connection", s, "", "", "", "", "")
  /\ UNCHANGED rooms
  /\ UNCHANGED <<harnessVars, sfuVars>>

\* socket.on('join-room', ({ roomId, role, mode }) => ...)
JoinRoom(s, roomId, role, mode) ==
  /\ sockets[s] = "connected"
  /\ LET \* socket.rooms.forEach(room => { if (room !== socket.id) ...
         old == socketRooms[s] \ {s}
         left == [socketRooms EXCEPT ![s] = @ \ old]
         removed == [r \in DOMAIN rooms |->
                       IF r \in old THEN RemoveParticipant(rooms[r], s)
                                    ELSE rooms[r]]
         peerLeft == UNION {ToEmit(s, r, left, "peer-left", s, "") :
                              r \in old \cap DOMAIN rooms}
         \* socket.join(roomId); get or create room; addParticipant
         joined == [left EXCEPT ![s] = @ \cup {roomId}]
         got == IF roomId \in DOMAIN removed THEN removed[roomId]
                                             ELSE NewRoom(roomId)
         room == AddParticipant(got, s, role, mode)
         peerJoined == ToEmit(s, roomId, joined, "peer-joined", s, "")
         participants == {p \in GetParticipants(room) : p.socketId # s}
         roomJoined ==
           Packet(s, "room-joined", "", "", roomId,
                  {[id |-> p.socketId, role |-> p.role, mode |-> p.mode] :
                     p \in participants})
     IN /\ socketRooms' = joined
        /\ rooms' = [r \in DOMAIN removed \cup {roomId} |->
                       IF r = roomId THEN room ELSE removed[r]]
        /\ sent' = peerLeft \cup peerJoined \cup {roomJoined}
  /\ handled' = Event("join-room", s, roomId, role, mode, "", "")
  /\ UNCHANGED sockets
  /\ UNCHANGED <<harnessVars, sfuVars>>

\* socket.on('offer' | 'answer' | 'ice-candidate', ({ .., to, roomId }) => ...)
Forward(s, kind, to, payload) ==
  /\ sockets[s] = "connected"
  /\ sent' = ToEmit(s, to, socketRooms, kind, s, payload)
  /\ handled' = Event(kind, s, "", "", "", to, payload)
  /\ UNCHANGED <<sockets, socketRooms, rooms>>
  /\ UNCHANGED <<harnessVars, sfuVars>>

\* socket.rooms as the 'disconnect' handler sees it: socket.io (from 3.0
\* on, where socket.rooms is a Set and the cors option exists) leaves all
\* rooms of the socket before it emits 'disconnect'
RoomsAtDisconnect(s) == {}

\* socket.on('disconnect', () => ...)
Disconnect(s) ==
  /\ sockets[s] = "connected"
  /\ sockets' = [sockets EXCEPT ![s] = "disconnected"]
  /\ socketRooms' = [socketRooms EXCEPT ![s] = {}]
  /\ LET hit == (RoomsAtDisconnect(s) \ {s}) \cap DOMAIN rooms
         removed == [r \in DOMAIN rooms |->
                       IF r \in hit THEN RemoveParticipant(rooms[r], s)
                                    ELSE rooms[r]]
         emptied == {r \in hit : DOMAIN removed[r].participants = {}}
     IN /\ rooms' = [r \in DOMAIN rooms \ emptied |-> removed[r]]
        /\ sent' = UNION {ToEmit(s, r, socketRooms', "peer-left", s, "") :
                            r \in hit}
  /\ handled' = Event("disconnect", s, "", "", "", "", "")
  /\ UNCHANGED <<harnessVars, sfuVars>>

\* setInterval(() => { ... rooms.delete(roomId) ... }, 60000)
SweepEmptyRooms ==
  /\ \E r \in DOMAIN rooms : DOMAIN rooms[r].participants = {}
  /\ rooms' = [r \in {x \in DOMAIN rooms : DOMAIN rooms[x].participants # {}} |->
                 rooms[r]]
  /\ sent' = {}
  /\ handled' = Event("sweep", "", "", "", "", "", "")
  /\ UNCHANGED <<sockets, socketRooms>>
  /\ UNCHANGED <<harnessVars, sfuVars>>

SignalingInit ==
  /\ cfg = FullConfig
  /\ suite = NoSuite
  /\ pc = "start"
  /\ browser = FALSE
  /\ csvFile = <<>>
  /\ sink = "sound"
  /\ ServersStarted
  /\ Constructed

SignalingNext ==
  \/ \E s \in SocketIds : Connection(s)
  \/ \E s \in SocketIds, roomId \in RoomIds, role \in Roles, mode \in Modes :
       JoinRoom(s, roomId, role, mode)
  \/ \E s, to \in SocketIds, kind \in ForwardKinds, payload \in Payloads :
       Forward(s, kind, to, payload)
  \/ \E s \in SocketIds : Disconnect(s)
  \/ SweepEmptyRooms

SpecSignaling == SignalingInit /\ [][SignalingNext]_vars

\* the participants of room R whose socket is still connected
Present(R) ==
  IF R \in DOMAIN rooms
    THEN {p \in GetParticipants(rooms[R]) : sockets[p.socketId] = "connected"}
    ELSE {}

\* the rooms that list socket s as a participant
RoomsListing(s) == {r \in DOMAIN rooms : s \in DOMAIN rooms[r].participants}

\* the participants of a room that joined as presenter
Presenters(room) ==
  {p \in DOMAIN room.participants : room.participants[p].role = "presenter"}

\* C33: an offer, answer or ice-candidate that socket s sends with to = t,
\* t another connected socket, is delivered to t only, tagged from = s and
\* with the payload unchanged; forwarding changes no room and no membership.
C33_ForwardPointToPoint ==
  /\ []((/\ handled.event \in ForwardKinds
         /\ handled.to # handled.socket
         /\ sockets[handled.to] = "connected")
          => sent = {Packet(handled.to, handled.event, handled.socket,
                            handled.payload, "", {})})
  /\ [][handled'.event \in ForwardKinds =>
          rooms' = rooms /\ socketRooms' = socketRooms]_vars

\* C34: when socket s joins room R, every participant of R that is still
\* there is sent peer-joined with the id of s, s is sent room-joined listing
\* exactly those participants with their role and mode, and s is recorded
\* in R with the role and mode it sent.
C34_JoinAnnounced ==
  [][handled'.event = "join-room" =>
       LET s == handled'.socket
           R == handled'.roomId
           others == {p \in Present(R) : p.socketId # s}
       IN /\ \A p \in others :
               Packet(p.socketId, "peer-joined", s, "", "", {}) \in sent'
          /\ Packet(s, "room-joined", "", "", R,
                    {[id |-> p.socketId, role |-> p.role, mode |-> p.mode] :
                       p \in others}) \in sent'
          /\ R \in DOMAIN rooms'
          /\ s \in DOMAIN rooms'[R].participants
          /\ rooms'[R].participants[s] =
               [socketId |-> s, role |-> handled'.role, mode |-> handled'.mode]
  ]_vars

\* C35: a socket that has disconnected is a participant of no room.
C35_DisconnectedLeaves ==
  \A s \in SocketIds :
    sockets[s] = "disconnected" => RoomsListing(s) = {}

\* C36: a connected socket is listed in the participants of at most one
\* room.
C36_AtMostOneRoom ==
  \A s \in SocketIds :
    sockets[s] = "connected" => Cardinality(RoomsListing(s)) <= 1

\* C37: room.presenter is non-null exactly when the room has a participant
\* of role presenter, and then getPresenter() is such a participant.
C37_PresenterTracksParticipants ==
  \A r \in DOMAIN rooms :
    /\ (rooms[r].presenter # NoPresenter) <=> (Presenters(rooms[r]) # {})
    /\ rooms[r].presenter # NoPresenter =>
         /\ rooms[r].presenter \in Presenters(rooms[r])
         /\ GetPresenter(rooms[r]) = rooms[r].participants[rooms[r].presenter]

(***************************************************************************)
(* The SFU server (metrics_collector.js, from line 686).  A client joins   *)
(* an SFU room, has transports created, connects them, produces or         *)
(* consumes, and disconnects.  The mediasoup objects are kept in the order *)
(* of their creation, the id of an object being its index: a closed        *)
(* transport closes its producers and consumers, a closed producer closes  *)
(* its consumers.                                                          *)
(***************************************************************************)
MaxTransports == 3
MaxProducers == 2
MaxConsumers == 1

\* the clients of the SFU server and the room of the experiment
SfuClients == {"s1", "s2"}
SfuRoomIds == {"r1"}

\* undefined or null where an object id is expected
NoId == 0

\* the ids a client may send: those of the objects, and one of no object
TransportIds == 1..(MaxTransports + 1)
ProducerIds == 1..(MaxProducers + 1)
ConsumerIds == 1..(MaxConsumers + 1)

Request(event, socket, id) == [event |-> event, socket |-> socket, id |-> id]

\* room.transports.get(socket.id) || {}
NoTransports == [send |-> NoId, recv |-> NoId]

\* new SFURoom(roomId)
NewSFURoom(roomId) ==
  [id |-> roomId, producer |-> NoId,
   consumers |-> [s \in {} |-> NoId],
   transports |-> [s \in {} |-> NoTransports]]

\* Map.delete(key)
Without(map, key) == [k \in DOMAIN map \ {key} |-> map[k]]

\* Map.set(key, value)
With(map, key, value) ==
  [k \in DOMAIN map \cup {key} |-> IF k = key THEN value ELSE map[k]]

\* the mediasoup objects of the router
Objects == [t |-> transports, p |-> producers, c |-> consumers]

\* consumer.close() for the consumers cs
CloseConsumers(ms, cs) ==
  [ms EXCEPT !.c = [i \in DOMAIN ms.c |->
                      IF i \in cs THEN [ms.c[i] EXCEPT !.closed = TRUE]
                                  ELSE ms.c[i]]]

\* producer.close() for the producers ps: their consumers are closed by
\* their producerclose handlers
CloseProducers(ms, ps) ==
  CloseConsumers(
    [ms EXCEPT !.p = [i \in DOMAIN ms.p |->
                        IF i \in ps THEN [ms.p[i] EXCEPT !.closed = TRUE]
                                    ELSE ms.p[i]]],
    {i \in DOMAIN ms.c : ms.c[i].producer \in ps})

\* transport.close() for the transports ts: their producers and consumers
\* are closed by their transportclose handlers
CloseTransports(ms, ts) ==
  CloseConsumers(
    CloseProducers(
      [ms EXCEPT !.t = [i \in DOMAIN ms.t |->
                          IF i \in ts THEN [ms.t[i] EXCEPT !.closed = TRUE]
                                      ELSE ms.t[i]]],
      {i \in DOMAIN ms.p : ms.p[i].transport \in ts}),
    {i \in DOMAIN ms.c : ms.c[i].transport \in ts})

\* the objects become ms
Become(ms) ==
  /\ transports' = ms.t
  /\ producers' = ms.p
  /\ consumers' = ms.c

\* the handler emits 'error' to its socket and changes nothing
Fails(event, s, id) ==
  /\ sfuReply' = "error"
  /\ sfuHandled' = Request(event, s, id)
  /\ UNCHANGED <<sfuSockets, currentRoom, sfuRooms, transports, producers,
                 consumers, sfuDown>>

\* const room = rooms.get(currentRoom) finds a room
InRoom(s) == currentRoom[s] \in DOMAIN sfuRooms

\* room.transports.get(socket.id), with both fields undefined when absent
TransportsOf(s) ==
  IF InRoom(s) /\ s \in DOMAIN sfuRooms[currentRoom[s]].transports
    THEN sfuRooms[currentRoom[s]].transports[s]
    ELSE NoTransports

\* io.on('connection'): let currentRoom = null
SfuConnection(s) ==
  /\ ~sfuDown /\ sfuSockets[s] = "unborn"
  /\ sfuSockets' = [sfuSockets EXCEPT ![s] = "connected"]
  /\ currentRoom' = [currentRoom EXCEPT ![s] = NoRoom]
  /\ sfuReply' = "none"
  /\ sfuHandled' = Request("connection", s, NoId)
  /\ UNCHANGED <<sfuRooms, transports, producers, consumers, sfuDown>>
  /\ UNCHANGED <<harnessVars, sigVars>>

\* socket.on('join-sfu-room', async ({ roomId }) => ...)
JoinSfuRoom(s, roomId) ==
  /\ ~sfuDown /\ sfuSockets[s] = "connected"
  /\ currentRoom' = [currentRoom EXCEPT ![s] = roomId]
  /\ sfuRooms' = IF roomId \in DOMAIN sfuRooms THEN sfuRooms
                 ELSE With(sfuRooms, roomId, NewSFURoom(roomId))
  /\ sfuReply' = "router-rtp-capabilities"
  /\ sfuHandled' = Request("join-sfu-room", s, NoId)
  /\ UNCHANGED <<sfuSockets, transports, producers, consumers, sfuDown>>
  /\ UNCHANGED <<harnessVars, sigVars>>

\* socket.on('create-webrtc-transport',
\*           async ({ producing, consuming, roomId }) => ...)
CreateWebRtcTransport(s, producing, roomId) ==
  /\ ~sfuDown /\ sfuSockets[s] = "connected"
  /\ Len(transports) < MaxTransports
  /\ IF roomId \notin DOMAIN sfuRooms
       THEN Fails("create-webrtc-transport", s, NoId)
       ELSE LET room == sfuRooms[roomId]
                id == Len(transports) + 1
                existingTransports ==
                  IF s \in DOMAIN room.transports THEN room.transports[s]
                                                  ELSE NoTransports
                stored == IF producing
                            THEN [existingTransports EXCEPT !.send = id]
                            ELSE [existingTransports EXCEPT !.recv = id]
            IN /\ transports' =
                    Append(transports,
                           [owner |-> s, closed |-> FALSE, connected |-> FALSE])
               /\ sfuRooms' =
                    [sfuRooms EXCEPT
                       ![roomId].transports = With(@, s, stored)]
               /\ sfuReply' = "webrtc-transport-created"
               /\ sfuHandled' = Request("create-webrtc-transport", s, id)
               /\ UNCHANGED <<sfuSockets, currentRoom, producers, consumers,
                              sfuDown>>
  /\ UNCHANGED <<harnessVars, sigVars>>

\* transport = transports.send?.id === transportId
\*               ? transports.send : transports.recv
Chosen(entry, transportId) ==
  IF entry.send # NoId /\ entry.send = transportId THEN entry.send
                                                   ELSE entry.recv

\* socket.on('connect-webrtc-transport',
\*           async ({ transportId, dtlsParameters }) => ...)
\* transport.connect rejects on a closed or an already connected transport
ConnectWebRtcTransport(s, transportId) ==
  /\ ~sfuDown /\ sfuSockets[s] = "connected"
  /\ LET transport == Chosen(TransportsOf(s), transportId)
     IN IF \/ ~InRoom(s)
           \/ transport = NoId
           \/ transports[transport].closed
           \/ transports[transport].connected
          THEN Fails("connect-webrtc-transport", s, transportId)
          ELSE /\ transports' =
                    [transports EXCEPT ![transport].connected = TRUE]
               /\ sfuReply' = "webrtc-transport-connected"
               /\ sfuHandled' =
                    Request("connect-webrtc-transport", s, transportId)
               /\ UNCHANGED <<sfuSockets, currentRoom, sfuRooms, producers,
                              consumers, sfuDown>>
  /\ UNCHANGED <<harnessVars, sigVars>>

\* socket.on('produce', async ({ transportId, kind, rtpParameters }) => ...)
Produce(s, transportId) ==
  /\ ~sfuDown /\ sfuSockets[s] = "connected"
  /\ Len(producers) < MaxProducers
  /\ LET transport == TransportsOf(s).send
     IN IF \/ ~InRoom(s)
           \/ transport = NoId
           \/ transport # transportId
           \/ transports[transport].closed
          THEN Fails("produce", s, transportId)
          ELSE /\ producers' =
                    Append(producers,
                           [transport |-> transport, closed |-> FALSE])
               \* room.setProducer(producer)
               /\ sfuRooms' =
                    [sfuRooms EXCEPT
                       ![currentRoom[s]].producer = Len(producers) + 1]
               /\ sfuReply' = "produced"
               /\ sfuHandled' = Request("produce", s, transportId)
               /\ UNCHANGED <<sfuSockets, currentRoom, transports, consumers,
                              sfuDown>>
  /\ UNCHANGED <<harnessVars, sigVars>>

\* router.canConsume({ producerId, rtpCapabilities })
CanConsume(producerId) ==
  producerId \in DOMAIN producers /\ ~producers[producerId].closed

\* socket.on('consume', async ({ producerId, rtpCapabilities }) => ...)
Consume(s, producerId) ==
  /\ ~sfuDown /\ sfuSockets[s] = "connected"
  /\ Len(consumers) < MaxConsumers
  /\ LET transport == TransportsOf(s).recv
     IN IF ~InRoom(s)
          THEN Fails("consume", s, producerId)
          ELSE IF ~CanConsume(producerId)
            THEN /\ sfuReply' = "none"
                 /\ sfuHandled' = Request("consume", s, producerId)
                 /\ UNCHANGED <<sfuSockets, currentRoom, sfuRooms,
                                transports, producers, consumers, sfuDown>>
            ELSE IF transport = NoId \/ transports[transport].closed
              THEN Fails("consume", s, producerId)
              ELSE /\ consumers' =
                        Append(consumers,
                               [transport |-> transport,
                                producer |-> producerId,
                                closed |-> FALSE, paused |-> TRUE])
                   \* room.addConsumer(socket.id, consumer)
                   /\ sfuRooms' =
                        [sfuRooms EXCEPT
                           ![currentRoom[s]].consumers =
                              With(@, s, Len(consumers) + 1)]
                   /\ sfuReply' = "consumed"
                   /\ sfuHandled' = Request("consume", s, producerId)
                   /\ UNCHANGED <<sfuSockets, currentRoom, transports,
                                  producers, sfuDown>>
  /\ UNCHANGED <<harnessVars, sigVars>>

\* room.consumers.get(socket.id)
ConsumerOf(s) ==
  IF InRoom(s) /\ s \in DOMAIN sfuRooms[currentRoom[s]].consumers
    THEN sfuRooms[currentRoom[s]].consumers[s]
    ELSE NoId

\* socket.on('resume-consumer', async ({ consumerId }) => ...)
ResumeConsumer(s, consumerId) ==
  /\ ~sfuDown /\ sfuSockets[s] = "connected"
  /\ LET consumer == ConsumerOf(s)
     IN IF \/ ~InRoom(s)
           \/ consumer = NoId
           \/ consumer # consumerId
           \/ consumers[consumer].closed
          THEN Fails("resume-consumer", s, consumerId)
          ELSE /\ consumers' = [consumers EXCEPT ![consumer].paused = FALSE]
               /\ sfuReply' = "none"
               /\ sfuHandled' = Request("resume-consumer", s, consumerId)
               /\ UNCHANGED <<sfuSockets, currentRoom, sfuRooms, transports,
                              producers, sfuDown>>
  /\ UNCHANGED <<harnessVars, sigVars>>

\* socket.on('disconnect', () => ...): removeConsumer, removeTransports,
\* removeProducer and cleanup of the room table, in this order.
\* transports.send.close() and transports.recv.close() are called on
\* whatever the entry holds: on undefined the call throws a TypeError,
\* which nothing catches.
SfuDisconnect(s) ==
  /\ ~sfuDown /\ sfuSockets[s] = "connected"
  /\ sfuSockets' = [sfuSockets EXCEPT ![s] = "disconnected"]
  /\ sfuReply' = "none"
  /\ sfuHandled' = Request("disconnect", s, NoId)
  /\ UNCHANGED currentRoom
  /\ IF ~InRoom(s)
       THEN UNCHANGED <<sfuRooms, transports, producers, consumers, sfuDown>>
       ELSE LET R == currentRoom[s]
                room == sfuRooms[R]
                \* room.removeConsumer(socket.id)
                consumer == ConsumerOf(s)
                ms1 == CloseConsumers(Objects, {consumer} \ {NoId})
                room1 == [room EXCEPT !.consumers = Without(@, s)]
                \* room.removeTransports(socket.id)
                has == s \in DOMAIN room.transports
                entry == TransportsOf(s)
                sendCloses == has /\ entry.send # NoId
                recvCloses == sendCloses /\ entry.recv # NoId
                throws == has /\ ~recvCloses
                ms2 == CloseTransports(ms1,
                         (IF sendCloses THEN {entry.send} ELSE {}) \cup
                         (IF recvCloses THEN {entry.recv} ELSE {}))
                room2 == IF recvCloses
                           THEN [room1 EXCEPT !.transports = Without(@, s)]
                           ELSE room1
                \* if (room.producer && room.transports.size === 0)
                \*   room.removeProducer()
                \* if (room.transports.size === 0) { room.cleanup(); ... }
                empty == DOMAIN room2.transports = {}
                ms3 == IF empty
                         THEN CloseConsumers(
                                CloseProducers(ms2, {room2.producer} \ {NoId}),
                                {room2.consumers[x] : x \in DOMAIN room2.consumers})
                         ELSE ms2
            IN IF throws
                 THEN /\ Become(ms2)
                      /\ sfuRooms' = [sfuRooms EXCEPT ![R] = room2]
                      /\ sfuDown' = TRUE
                 ELSE /\ Become(ms3)
                      /\ sfuRooms' = IF empty THEN Without(sfuRooms, R)
                                     ELSE [sfuRooms EXCEPT ![R] = room2]
                      /\ UNCHANGED sfuDown
  /\ UNCHANGED <<harnessVars, sigVars>>

SfuInit ==
  /\ cfg = FullConfig
  /\ suite = NoSuite
  /\ pc = "start"
  /\ browser = FALSE
  /\ csvFile = <<>>
  /\ sink = "sound"
  /\ ServersStarted
  /\ Constructed

SfuNext ==
  \/ \E s \in SfuClients : SfuConnection(s)
  \/ \E s \in SfuClients, roomId \in SfuRoomIds : JoinSfuRoom(s, roomId)
  \/ \E s \in SfuClients, producing \in BOOLEAN, roomId \in SfuRoomIds :
       CreateWebRtcTransport(s, producing, roomId)
  \/ \E s \in SfuClients, transportId \in TransportIds :
       ConnectWebRtcTransport(s, transportId)
  \/ \E s \in SfuClients, transportId \in TransportIds :
       Produce(s, transportId)
  \/ \E s \in SfuClients, producerId \in ProducerIds : Consume(s, producerId)
  \/ \E s \in SfuClients, consumerId \in ConsumerIds :
       ResumeConsumer(s, consumerId)
  \/ \E s \in SfuClients : SfuDisconnect(s)

SpecSfu == SfuInit /\ [][SfuNext]_vars

\* the transports socket s holds in its current room
Owned(s) == {TransportsOf(s).send, TransportsOf(s).recv} \ {NoId}

\* the transports that the step connects
NewlyConnected ==
  {t \in DOMAIN transports :
     transports'[t].connected /\ ~transports[t].connected}

\* the consumers that the step resumes
NewlyResumed ==
  {c \in DOMAIN consumers : ~consumers'[c].paused /\ consumers[c].paused}

\* C38: the disconnect handler never fails part-way; after a client has
\* disconnected no room holds a consumer or transports for it, its
\* transports and the consumers on them are closed, and the room it was in
\* is not left in the room table without transports.
C38_DisconnectCleansUp ==
  /\ ~sfuDown
  /\ \A s \in SfuClients :
       sfuSockets[s] = "disconnected" =>
         /\ \A r \in DOMAIN sfuRooms :
              /\ s \notin DOMAIN sfuRooms[r].transports
              /\ s \notin DOMAIN sfuRooms[r].consumers
         /\ \A t \in DOMAIN transports :
              transports[t].owner = s => transports[t].closed
         /\ \A c \in DOMAIN consumers :
              transports[consumers[c].transport].owner = s =>
                consumers[c].closed
  /\ (sfuHandled.event = "disconnect" /\ InRoom(sfuHandled.socket)) =>
       DOMAIN sfuRooms[currentRoom[sfuHandled.socket]].transports # {}

\* C39: connect-webrtc-transport connects nothing but the requesting
\* socket's transport whose id is transportId, and reports an error when
\* the socket has no such transport; resume-consumer resumes nothing but
\* the socket's own consumer with the given consumerId.
C39_OwnResourceOnly ==
  [][/\ sfuHandled'.event = "connect-webrtc-transport" =>
          /\ NewlyConnected \subseteq ({sfuHandled'.id} \cap Owned(sfuHandled'.socket))
          /\ sfuHandled'.id \notin Owned(sfuHandled'.socket) =>
               sfuReply' = "error"
          /\ sfuReply' # "error" => NewlyConnected = {sfuHandled'.id}
     /\ sfuHandled'.event = "resume-consumer" =>
          /\ NewlyResumed \subseteq
               ({sfuHandled'.id} \cap {ConsumerOf(sfuHandled'.socket)})
          /\ sfuHandled'.id # ConsumerOf(sfuHandled'.socket) =>
               sfuReply' = "error"
    ]_vars

\* C40: while the server runs, room.producer is null or an open producer
\* on a transport of a socket that is still connected and in the room, and
\* every open producer is the producer of a room.
C40_ProducerLive ==
  ~sfuDown =>
    /\ \A r \in DOMAIN sfuRooms :
         sfuRooms[r].producer # NoId =>
           /\ ~producers[sfuRooms[r].producer].closed
           /\ LET o == transports[producers[sfuRooms[r].producer].transport].owner
              IN /\ sfuSockets[o] = "connected"
                 /\ o \in DOMAIN sfuRooms[r].transports
    /\ \A p \in DOMAIN producers :
         ~producers[p].closed =>
           \E r \in DOMAIN sfuRooms : sfuRooms[r].producer = p

====
